---- MODULE Spec2Model ----
(***************************************************************************)
(* Ledger running balances of the nutrisuppliers application.              *)
(*                                                                         *)
(*  - the Firebase client's balance engine, calculateTransactionBalances   *)
(*    (client/src/lib/firebaseDb.ts), a pure function;                     *)
(*  - the Express/PostgreSQL server's DatabaseStorage (server/storage.ts), *)
(*    which persists balanceAfter on every transaction row.                *)
(*                                                                         *)
(* Dates and timestamps are the integers Date.getTime() returns, on an     *)
(* abstract scale.  Amounts are whole currency units: for these            *)
(* parseFloat of a numeric(12,2) column, the float additions and           *)
(* Number.toString are exact, so an amount is modelled by its integer.     *)
(***************************************************************************)
EXTENDS Integers, Sequences, FiniteSets, TLC

VARIABLES
    input,          \* engine: the transactions argument (a sequence)
    call,           \* engine: [sortField, sortOrder] of the last call, or NoCall
    output,         \* engine: the list the last call returned
    clients,        \* server: rows of the clients table
    transactions,   \* server: rows of the transactions table
    nextId,         \* server: next value of the transactions.id serial
    response,       \* server: what the last completed storage call returned
    request,        \* server: per worker, the storage call in flight
    files           \* images: the files of the Appwrite storage bucket

vars == <<input, call, output, clients, transactions, nextId, response, request,
          files>>

\* The bucket is no part of a ledger: the engine's steps and the server's
\* steps alike leave it alone.
engineVars == <<input, call, output, files>>
serverVars == <<clients, transactions, nextId, response, request, files>>

(***************************************************************************)
(* Bounds of the model.                                                    *)
(***************************************************************************)
MaxLen  == 3        \* longest list handed to the engine
MaxDate == 3        \* dates range over 1..MaxDate
MaxRows == 3        \* rows the transactions table ever receives (serial ids)

Dates      == 1..MaxDate
CreatedAts == {1, 2}
\* <<debitAmount, creditAmount>> of an entry: a debit or a credit
Amounts    == {<<100, 0>>, <<0, 30>>}

NoCall == [sortField |-> "none", sortOrder |-> "none"]
SortFields == {"date", "createdAt"}
SortOrders == {"asc", "desc"}

(***************************************************************************)
(* Generic helpers.                                                        *)
(***************************************************************************)
Range(s) == {s[i] : i \in DOMAIN s}

\* A sort that is not stable: equal elements come out in reverse.
ArraySort_tiesReversed(arr, compareFn) ==
    LET n == Len(arr)
        rank(i) == 1 + Cardinality({j \in 1..n :
                         \/ compareFn[<<arr[j], arr[i]>>] < 0
                         \/ compareFn[<<arr[j], arr[i]>>] = 0 /\ j > i})
    IN  [k \in 1..n |-> arr[CHOOSE i \in 1..n : rank(i) = k]]

\* Array.prototype.sort(compareFn): the stable sort of arr (ECMAScript 2019).
\* The element at index i goes behind every element that compares lower and
\* behind every equal element that precedes it in arr.
\* compareFn is the comparator as a function on pairs of elements.
ArraySort(arr, compareFn) ==
    LET n == Len(arr)
        rank(i) == 1 + Cardinality({j \in 1..n :
                         \/ compareFn[<<arr[j], arr[i]>>] < 0
                         \/ compareFn[<<arr[j], arr[i]>>] = 0 /\ j < i})
    IN  [k \in 1..n |-> arr[CHOOSE i \in 1..n : rank(i) = k]]

(***************************************************************************)
(* The balance engine: calculateTransactionBalances.                       *)
(***************************************************************************)
\* aValue / bValue: the Date the sort field selects, as getTime().
sortValue(t, sortField) ==
    IF sortField = "date" THEN t.date ELSE t.createdAt

displayCompare_ignoreOrder(a, b, sortField, sortOrder) ==
    sortValue(a, sortField) - sortValue(b, sortField)

\* comparator of sortedTransactions (display order)
displayCompare(a, b, sortField, sortOrder) ==
    LET comparison == sortValue(a, sortField) - sortValue(b, sortField)
    IN  IF sortOrder = "asc" THEN comparison ELSE -comparison

\* comparator of chronologicalTransactions: always oldest first
chronologicalCompare(a, b, sortField) ==
    sortValue(a, sortField) - sortValue(b, sortField)

applyToBalance_creditAdds(runningBalance, transaction) ==
    runningBalance + transaction.creditAmount - transaction.debitAmount

applyToBalance_debitOnly(runningBalance, transaction) ==
    runningBalance + transaction.debitAmount

\* runningBalance = runningBalance + debitAmount - creditAmount
applyToBalance(runningBalance, transaction) ==
    runningBalance + transaction.debitAmount - transaction.creditAmount

\* balanceMap.set(id, value)
MapSet(map, key, value) ==
    [k \in (DOMAIN map) \cup {key} |-> IF k = key THEN value ELSE map[k]]

\* balanceMap.get(id) || 0
MapGetOrZero(map, key) ==
    IF key \in DOMAIN map THEN map[key] ELSE 0

\* chronologicalTransactions.forEach(...): the map after the walk
RECURSIVE walkBalances(_, _, _)
walkBalances(chronological, runningBalance, balanceMap) ==
    IF chronological = <<>> THEN balanceMap
    ELSE LET transaction == Head(chronological)
             newBalance  == applyToBalance(runningBalance, transaction)
         IN  walkBalances(Tail(chronological), newBalance,
                          MapSet(balanceMap, transaction.id, newBalance))

withBalance(transaction, balance) ==
    [id           |-> transaction.id,
     date         |-> transaction.date,
     createdAt    |-> transaction.createdAt,
     debitAmount  |-> transaction.debitAmount,
     creditAmount |-> transaction.creditAmount,
     balanceAfter |-> balance]

\* The bug the source's comments warn against: balances taken along the
\* display order instead of the chronological order.
calculateTransactionBalances_alongDisplay(txs, sortField, sortOrder) ==
    LET cmp == [p \in Range(txs) \X Range(txs) |->
                    displayCompare(p[1], p[2], sortField, sortOrder)]
        sortedTransactions == ArraySort(txs, cmp)
        balanceMap == walkBalances(sortedTransactions, 0, <<>>)
    IN  [k \in 1..Len(sortedTransactions) |->
            withBalance(sortedTransactions[k],
                        MapGetOrZero(balanceMap, sortedTransactions[k].id))]

\* A variant that opens every ledger with a zero row, the empty one included.
calculateTransactionBalances_openingRow(txs, sortField, sortOrder) ==
    LET cmp == [p \in Range(txs) \X Range(txs) |->
                    displayCompare(p[1], p[2], sortField, sortOrder)]
        chron == [p \in Range(txs) \X Range(txs) |->
                    chronologicalCompare(p[1], p[2], sortField)]
        sortedTransactions        == ArraySort(txs, cmp)
        chronologicalTransactions == ArraySort(txs, chron)
        balanceMap == walkBalances(chronologicalTransactions, 0, <<>>)
        opening == [id |-> 0, date |-> 0, createdAt |-> 0,
                    debitAmount |-> 0, creditAmount |-> 0, balanceAfter |-> 0]
    IN  IF txs = <<>> THEN <<opening>>
        ELSE [k \in 1..Len(sortedTransactions) |->
                withBalance(sortedTransactions[k],
                            MapGetOrZero(balanceMap, sortedTransactions[k].id))]

calculateTransactionBalances(txs, sortField, sortOrder) ==
    LET cmp == [p \in Range(txs) \X Range(txs) |->
                    displayCompare(p[1], p[2], sortField, sortOrder)]
        chron == [p \in Range(txs) \X Range(txs) |->
                    chronologicalCompare(p[1], p[2], sortField)]
        sortedTransactions        == ArraySort(txs, cmp)
        chronologicalTransactions == ArraySort(txs, chron)
        balanceMap == walkBalances(chronologicalTransactions, 0, <<>>)
    IN  [k \in 1..Len(sortedTransactions) |->
            withBalance(sortedTransactions[k],
                        MapGetOrZero(balanceMap, sortedTransactions[k].id))]

\* Sorting the caller's array itself instead of a copy of it.
transactionsAfterCall_sortedInPlace(txs, sortField, sortOrder) ==
    ArraySort(txs, [p \in Range(txs) \X Range(txs) |->
                       displayCompare(p[1], p[2], sortField, sortOrder)])

\* The caller's array once the call has returned.  Both sorts run on
\* [...transactions], a fresh array, and map builds new objects with
\* {...transaction, balanceAfter}: nothing writes to the array handed in or
\* to its elements.
transactionsAfterCall(txs, sortField, sortOrder) == txs

\* transactions.reduce((sum, t) => sum + t.debitAmount, 0)
RECURSIVE reduceDebit(_, _)
reduceDebit(txs, sum) ==
    IF txs = <<>> THEN sum
    ELSE reduceDebit(Tail(txs), sum + Head(txs).debitAmount)

\* transactions.reduce((sum, t) => sum + t.creditAmount, 0)
RECURSIVE reduceCredit(_, _)
reduceCredit(txs, sum) ==
    IF txs = <<>> THEN sum
    ELSE reduceCredit(Tail(txs), sum + Head(txs).creditAmount)

firebaseGetClientBalance_creditMinusDebit(txs) ==
    IF Len(txs) = 0 THEN 0
    ELSE reduceCredit(txs, 0) - reduceDebit(txs, 0)

\* getClientBalance of firebaseDb.ts over the client's transactions, as
\* getAllTransactions returns them
firebaseGetClientBalance(txs) ==
    IF Len(txs) = 0 THEN 0
    ELSE LET totalDebit  == reduceDebit(txs, 0)
             totalCredit == reduceCredit(txs, 0)
         IN  totalDebit - totalCredit

(***************************************************************************)
(* The server: DatabaseStorage over the clients and transactions tables.   *)
(* A row of transactions is [id, userId, clientId, date, debitAmount,      *)
(* creditAmount, balanceAfter]; a row of clients is [id, userId].          *)
(***************************************************************************)
Users == {"u1", "u2"}

\* The clients the store holds: one of each user.
ClientRows == {[id |-> 1, userId |-> "u1"], [id |-> 2, userId |-> "u2"]}
\* A client id no row of clients carries (the serial has not reached it).
UnknownClientId == Cardinality(ClientRows) + 1

TransactionRow(id, userId, clientId, date, amount, balanceAfter) ==
    [id |-> id, userId |-> userId, clientId |-> clientId, date |-> date,
     debitAmount |-> amount[1], creditAmount |-> amount[2],
     balanceAfter |-> balanceAfter]

\* where(and(eq(transactions.clientId, clientId), eq(transactions.userId, userId)))
LedgerRows(table, clientId, userId) ==
    {r \in table : r.clientId = clientId /\ r.userId = userId}

\* All orders in which a set of rows can be listed.
Listings(rows) ==
    {s \in [1..Cardinality(rows) -> rows] :
        \A i, j \in 1..Cardinality(rows) : i # j => s[i] # s[j]}

\* .orderBy(transactions.date): SQL fixes no order among rows of equal date,
\* so every ascending listing is a possible result.
OrderByDate(rows) ==
    {s \in Listings(rows) :
        \A i, j \in 1..Len(s) : i < j => s[i].date <= s[j].date}

\* .orderBy(desc(transactions.date))
OrderByDateDesc(rows) ==
    {s \in Listings(rows) :
        \A i, j \in 1..Len(s) : i < j => s[i].date >= s[j].date}

\* .orderBy(desc(transactions.date)).limit(1)
LatestByDate(rows) ==
    IF rows = {} THEN {<<>>}
    ELSE {<<r>> : r \in {x \in rows : \A y \in rows : y.date <= x.date}}

\* A lookup by id alone.
getTransaction_ofAnyUser(table, id, userId) ==
    {r \in table : r.id = id}

\* getTransaction: the row with this id owned by this user, or none
getTransaction(table, id, userId) ==
    {r \in table : r.id = id /\ r.userId = userId}

\* createTransaction: previousBalance + creditAmount - debitAmount
createBalance(previousBalance, debitAmount, creditAmount) ==
    previousBalance + creditAmount - debitAmount

\* recalculateBalances: runningBalance + creditAmount - debitAmount
recalcStep(runningBalance, row) ==
    runningBalance + row.creditAmount - row.debitAmount

\* The balance recalculateBalances computes for the k-th row of the listing
\* it read.
RECURSIVE recalcBalanceAt(_, _)
recalcBalanceAt(allTransactions, k) ==
    IF k = 0 THEN 0
    ELSE recalcStep(recalcBalanceAt(allTransactions, k - 1), allTransactions[k])

\* db.update(transactions).set({balanceAfter}).where(eq(transactions.id, id))
setBalance(table, id, balanceAfter) ==
    {IF r.id = id THEN [r EXCEPT !.balanceAfter = balanceAfter] ELSE r : r \in table}

\* The table after the first k rows of the listing have been rewritten.
RECURSIVE recalcWritten(_, _, _)
recalcWritten(table, allTransactions, k) ==
    IF k = 0 THEN table
    ELSE setBalance(recalcWritten(table, allTransactions, k - 1),
                    allTransactions[k].id,
                    recalcBalanceAt(allTransactions, k))

\* db.update(transactions).set(transaction): the columns the partial
\* transaction carries are written, clientId among them
applyPatch(row, patch) ==
    [row EXCEPT
        !.clientId     = IF patch.hasClient THEN patch.clientId ELSE @,
        !.date         = IF patch.hasDate THEN patch.date ELSE @,
        !.debitAmount  = IF patch.hasAmount THEN patch.amount[1] ELSE @,
        !.creditAmount = IF patch.hasAmount THEN patch.amount[2] ELSE @]

\* The partial transactions a PUT carries: a new date, new amounts, or both
\* (a field the patch leaves out holds a fixed filler).
Patches ==
    {p \in [hasDate : BOOLEAN, date : Dates, hasAmount : BOOLEAN, amount : Amounts,
            hasClient : {FALSE}, clientId : {0}] :
        /\ p.hasDate \/ p.hasAmount
        /\ ~p.hasDate => p.date = CHOOSE d \in Dates : TRUE
        /\ ~p.hasAmount => p.amount = CHOOSE a \in Amounts : TRUE}

NoResponse == [op |-> "none", result |-> "none", recalculated |-> {}]

Respond(op, result, recalculated) ==
    [op |-> op, result |-> result, recalculated |-> recalculated]

(***************************************************************************)
(* The storage calls, each run to completion with no other call in         *)
(* between.                                                                *)
(***************************************************************************)
createTransaction(clientId, userId, date, amount) ==
    /\ nextId <= MaxRows
    /\ \E c \in clients : c.id = clientId          \* foreign key on clients.id
    /\ \E latestTransactions \in LatestByDate(LedgerRows(transactions, clientId, userId)) :
         LET previousBalance == IF Len(latestTransactions) > 0
                                THEN latestTransactions[1].balanceAfter ELSE 0
             balanceAfter == createBalance(previousBalance, amount[1], amount[2])
             newTransaction == TransactionRow(nextId, userId, clientId, date,
                                              amount, balanceAfter)
         IN  /\ transactions' = transactions \cup {newTransaction}
             /\ response' = Respond("createTransaction", newTransaction, {})
    /\ nextId' = nextId + 1
    /\ UNCHANGED <<clients, request, engineVars>>

\* updateTransaction without the recalculateBalances call.
updateTransaction_withoutRecalculate(id, userId, patch) ==
    LET existingTransaction == getTransaction(transactions, id, userId) IN
    /\ IF existingTransaction = {}
       THEN /\ response' = Respond("updateTransaction", "undefined", {})
            /\ UNCHANGED transactions
       ELSE LET updated == applyPatch(CHOOSE r \in existingTransaction : TRUE, patch)
            IN  /\ transactions' = (transactions \ existingTransaction) \cup {updated}
                /\ response' = Respond("updateTransaction", updated, {})
    /\ UNCHANGED <<clients, nextId, request, engineVars>>

updateTransaction(id, userId, patch) ==
    LET existingTransaction == getTransaction(transactions, id, userId) IN
    /\ IF existingTransaction = {}
       THEN /\ response' = Respond("updateTransaction", "undefined", {})
            /\ UNCHANGED transactions
       ELSE LET updated == applyPatch(CHOOSE r \in existingTransaction : TRUE, patch)
                afterUpdate == (transactions \ existingTransaction) \cup {updated}
            IN  \E allTransactions \in
                     OrderByDate(LedgerRows(afterUpdate, updated.clientId, userId)) :
                  /\ transactions' = recalcWritten(afterUpdate, allTransactions,
                                                   Len(allTransactions))
                  /\ response' = Respond("updateTransaction", updated,
                                         {<<updated.clientId, userId>>})
    /\ UNCHANGED <<clients, nextId, request, engineVars>>

deleteTransaction(id, userId) ==
    LET transaction == getTransaction(transactions, id, userId) IN
    /\ IF transaction = {}
       THEN /\ response' = Respond("deleteTransaction", FALSE, {})
            /\ UNCHANGED transactions
       ELSE LET afterDelete == transactions \ transaction
                clientId == (CHOOSE r \in transaction : TRUE).clientId
            IN  \E allTransactions \in
                     OrderByDate(LedgerRows(afterDelete, clientId, userId)) :
                  /\ transactions' = recalcWritten(afterDelete, allTransactions,
                                                   Len(allTransactions))
                  /\ response' = Respond("deleteTransaction", TRUE,
                                         {<<clientId, userId>>})
    /\ UNCHANGED <<clients, nextId, request, engineVars>>

getClientBalance(clientId, userId) ==
    /\ \E latestTransaction \in LatestByDate(LedgerRows(transactions, clientId, userId)) :
         response' = Respond("getClientBalance",
                             [clientId |-> clientId, userId |-> userId,
                              balance |-> IF Len(latestTransaction) > 0
                                          THEN latestTransaction[1].balanceAfter
                                          ELSE 0],
                             {})
    /\ UNCHANGED <<clients, transactions, nextId, request, engineVars>>

\* getTransactions without filters
getTransactions(clientId, userId) ==
    /\ \E rows \in OrderByDateDesc(LedgerRows(transactions, clientId, userId)) :
         response' = Respond("getTransactions",
                             [clientId |-> clientId, userId |-> userId,
                              rows |-> rows],
                             {})
    /\ UNCHANGED <<clients, transactions, nextId, request, engineVars>>

ServerInit ==
    /\ clients = ClientRows
    /\ transactions = {}
    /\ nextId = 1
    /\ response = NoResponse
    /\ request = <<>>
    /\ files = {}
    /\ input = <<>>
    /\ call = NoCall
    /\ output = <<>>

\* Requests name a client of the signed-in user, or a client that does not
\* exist.
ClientRequests ==
    {<<c.id, c.userId>> : c \in ClientRows} \cup {<<UnknownClientId, "u1">>}

ServerNext ==
    \/ \E q \in ClientRequests, date \in Dates, amount \in Amounts :
           createTransaction(q[1], q[2], date, amount)
    \/ \E id \in 1..MaxRows, userId \in Users, patch \in Patches :
           updateTransaction(id, userId, patch)
    \/ \E id \in 1..MaxRows, userId \in Users :
           deleteTransaction(id, userId)
    \/ \E q \in ClientRequests : getClientBalance(q[1], q[2])
    \/ \E q \in ClientRequests : getTransactions(q[1], q[2])

SpecServer == ServerInit /\ [][ServerNext]_vars

\* The bodies of a PUT that names another client for the row: clientId is a
\* column of insertTransactionSchema.partial().
MovePatches ==
    {p \in [hasDate : {FALSE}, date : Dates, hasAmount : {FALSE}, amount : Amounts,
            hasClient : {TRUE}, clientId : {c.id : c \in ClientRows} \cup {UnknownClientId}] :
        /\ p.date = CHOOSE d \in Dates : TRUE
        /\ p.amount = CHOOSE a \in Amounts : TRUE}

\* The store once u1 has added a second client: the serial gives it the next
\* id.
ReportClientRows == ClientRows \cup {[id |-> UnknownClientId, userId |-> "u1"]}

LedgersInit ==
    /\ clients = ReportClientRows
    /\ transactions = {}
    /\ nextId = 1
    /\ response = NoResponse
    /\ request = <<>>
    /\ files = {}
    /\ input = <<>>
    /\ call = NoCall
    /\ output = <<>>

\* The same store after u2 has entered a first credit.
PartitionInit ==
    /\ clients = ReportClientRows
    /\ transactions = {TransactionRow(1, "u2", 2, 1, <<0, 30>>,
                                      createBalance(0, 0, 30))}
    /\ nextId = 2
    /\ response = NoResponse
    /\ request = <<>>
    /\ files = {}
    /\ input = <<>>
    /\ call = NoCall
    /\ output = <<>>

\* Mutations over the ledgers of three clients, two of them of one user.
PartitionNext ==
    \/ \E c \in ReportClientRows, date \in {1, MaxDate}, amount \in Amounts :
           createTransaction(c.id, c.userId, date, amount)
    \/ \E id \in 1..MaxRows, userId \in Users,
           patch \in {p \in Patches : ~p.hasDate} \cup MovePatches :
           updateTransaction(id, userId, patch)
    \/ \E id \in 1..MaxRows, userId \in Users :
           deleteTransaction(id, userId)

SpecPartition == PartitionInit /\ [][PartitionNext]_vars

(***************************************************************************)
(* The same storage calls, one step per awaited database statement, as     *)
(* Node runs them: between two statements of one call the statements of    *)
(* another call may run.  request[w] is the call worker w has in flight.   *)
(***************************************************************************)
Workers == {1, 2}

\* The day the new entries of a session carry: later than every stored date.
Today == MaxDate + 1

Idle ==
    [pc |-> "idle", op |-> "none", id |-> 0, userId |-> "none", clientId |-> 0,
     date |-> 0, amount |-> <<0, 0>>,
     patch |-> CHOOSE p \in Patches : TRUE,
     previousBalance |-> 0, allTransactions |-> <<>>, written |-> 0]

InFlight(w) == request[w].pc \notin {"idle", "done", "failed"}

\* createTransaction, first statement: select ... orderBy(desc(date)).limit(1)
StartCreate(w, clientId, userId, date, amount) ==
    /\ request[w].pc = "idle"
    /\ nextId + Cardinality({v \in Workers : request[v].pc = "insert"}) <= MaxRows
    /\ \E c \in clients : c.id = clientId
    /\ \E latestTransactions \in LatestByDate(LedgerRows(transactions, clientId, userId)) :
         request' = [request EXCEPT ![w] =
             [Idle EXCEPT !.pc = "insert", !.op = "createTransaction",
                          !.userId = userId, !.clientId = clientId,
                          !.date = date, !.amount = amount,
                          !.previousBalance =
                              IF Len(latestTransactions) > 0
                              THEN latestTransactions[1].balanceAfter ELSE 0]]
    /\ UNCHANGED <<clients, transactions, nextId, response, engineVars>>

\* createTransaction, second statement: insert ... returning
CreateInsert(w) ==
    /\ request[w].pc = "insert"
    /\ LET r == request[w]
           balanceAfter == createBalance(r.previousBalance, r.amount[1], r.amount[2])
       IN  transactions' = transactions \cup
               {TransactionRow(nextId, r.userId, r.clientId, r.date, r.amount,
                               balanceAfter)}
    /\ nextId' = nextId + 1
    /\ request' = [request EXCEPT ![w].pc = "done"]
    /\ UNCHANGED <<clients, response, engineVars>>

\* updateTransaction, first statement: getTransaction(id, userId)
StartUpdate(w, id, userId, patch) ==
    /\ request[w].pc = "idle"
    /\ request' = [request EXCEPT ![w] =
           [Idle EXCEPT !.pc = IF getTransaction(transactions, id, userId) = {}
                               THEN "done" ELSE "update",
                        !.op = "updateTransaction",
                        !.id = id, !.userId = userId, !.patch = patch]]
    /\ UNCHANGED <<clients, transactions, nextId, response, engineVars>>

\* updateTransaction, second statement: update ... set(transaction) returning
UpdateSet(w) ==
    /\ request[w].pc = "update"
    /\ LET r == request[w]
           found == getTransaction(transactions, r.id, r.userId)
       IN  IF found = {}
           THEN /\ request' = [request EXCEPT ![w].pc = "done"]
                /\ UNCHANGED transactions
           ELSE LET updated == applyPatch(CHOOSE x \in found : TRUE, r.patch)
                IN  /\ transactions' = (transactions \ found) \cup {updated}
                    /\ request' = [request EXCEPT ![w].pc = "recalcRead",
                                                  ![w].clientId = updated.clientId]
    /\ UNCHANGED <<clients, nextId, response, engineVars>>

\* deleteTransaction, first statement: getTransaction(id, userId)
StartDelete(w, id, userId) ==
    /\ request[w].pc = "idle"
    /\ LET transaction == getTransaction(transactions, id, userId)
       IN  request' = [request EXCEPT ![w] =
               [Idle EXCEPT !.pc = IF transaction = {} THEN "done" ELSE "delete",
                            !.op = "deleteTransaction",
                            !.id = id, !.userId = userId,
                            !.clientId = IF transaction = {} THEN 0
                                         ELSE (CHOOSE x \in transaction : TRUE).clientId]]
    /\ UNCHANGED <<clients, transactions, nextId, response, engineVars>>

\* deleteTransaction, second statement: delete ... where id and userId
DeleteRow(w) ==
    /\ request[w].pc = "delete"
    /\ LET r == request[w]
           found == getTransaction(transactions, r.id, r.userId)
       IN  /\ transactions' = transactions \ found
           /\ request' = [request EXCEPT ![w].pc =
                              IF found = {} THEN "done" ELSE "recalcRead"]
    /\ UNCHANGED <<clients, nextId, response, engineVars>>

\* recalculateBalances, the select: allTransactions ordered by date
RecalcRead(w) ==
    /\ request[w].pc = "recalcRead"
    /\ \E allTransactions \in
           OrderByDate(LedgerRows(transactions, request[w].clientId, request[w].userId)) :
         request' = [request EXCEPT
             ![w].allTransactions = allTransactions,
             ![w].written = 0,
             ![w].pc = IF Len(allTransactions) = 0 THEN "done" ELSE "recalcWrite"]
    /\ UNCHANGED <<clients, transactions, nextId, response, engineVars>>

\* recalculateBalances, one turn of the loop: the update of the next row
RecalcWrite(w) ==
    /\ request[w].pc = "recalcWrite"
    /\ LET r == request[w]
           k == r.written + 1
       IN  /\ transactions' = setBalance(transactions, r.allTransactions[k].id,
                                         recalcBalanceAt(r.allTransactions, k))
           /\ request' = [request EXCEPT
                  ![w].written = k,
                  ![w].pc = IF k = Len(r.allTransactions) THEN "done"
                            ELSE "recalcWrite"]
    /\ UNCHANGED <<clients, nextId, response, engineVars>>

\* An awaited statement rejects (storage error) or the process dies: the
\* call ends where it stands, the statements already run stay in the store.
Fail(w) ==
    /\ InFlight(w)
    /\ request' = [request EXCEPT ![w].pc = "failed"]
    /\ UNCHANGED <<clients, transactions, nextId, response, engineVars>>

\* Ledgers of client 1 as createTransaction leaves them when the entries are
\* entered in the order of their dates.
RECURSIVE SeedBalance(_, _)
SeedBalance(entries, k) ==
    IF k = 0 THEN 0
    ELSE createBalance(SeedBalance(entries, k - 1),
                       entries[k][2][1], entries[k][2][2])

SeedTable(entries) ==
    {TransactionRow(k, "u1", 1, entries[k][1], entries[k][2],
                    SeedBalance(entries, k)) : k \in 1..Len(entries)}

SeedEntries ==
    {e \in UNION {[1..n -> Dates \X Amounts] : n \in 1..(MaxRows - 1)} :
        \A i, j \in 1..Len(e) : i < j => e[i][1] < e[j][1]}

StepInit ==
    /\ clients = ClientRows
    /\ \E e \in SeedEntries :
         /\ transactions = SeedTable(e)
         /\ nextId = Len(e) + 1
    /\ response = NoResponse
    /\ request = [w \in Workers |-> Idle]
    /\ files = {}
    /\ input = <<>>
    /\ call = NoCall
    /\ output = <<>>

\* Two calls on the ledger of client 1, their statements interleaving freely.
ConcNext ==
    \E w \in Workers :
        \/ \E amount \in Amounts : StartCreate(w, 1, "u1", Today, amount)
        \/ CreateInsert(w)
        \/ \E id \in 1..MaxRows, patch \in Patches : StartUpdate(w, id, "u1", patch)
        \/ UpdateSet(w)
        \/ \E id \in 1..MaxRows : StartDelete(w, id, "u1")
        \/ DeleteRow(w)
        \/ RecalcRead(w)
        \/ RecalcWrite(w)

SpecConc == StepInit /\ [][ConcNext]_vars

\* One update or delete at a time, which may fail at any statement.
CrashNext ==
    \/ \E id \in 1..MaxRows, patch \in Patches : StartUpdate(1, id, "u1", patch)
    \/ UpdateSet(1)
    \/ \E id \in 1..MaxRows : StartDelete(1, id, "u1")
    \/ DeleteRow(1)
    \/ RecalcRead(1)
    \/ RecalcWrite(1)
    \/ Fail(1)

SpecCrash == StepInit /\ [][CrashNext]_vars

(***************************************************************************)
(* Engine specification: the inputs are drawn in Init, the action calls    *)
(* the function.                                                           *)
(***************************************************************************)
FbTransaction(id, date, createdAt, amount) ==
    [id |-> id, date |-> date, createdAt |-> createdAt,
     debitAmount |-> amount[1], creditAmount |-> amount[2]]

\* The single-entry and three-transaction scenarios (dates are days of
\* January 2024).
SingleDebit  == <<FbTransaction(1, 1, 1, <<100, 0>>)>>
SingleCredit == <<FbTransaction(1, 1, 1, <<0, 100>>)>>
ThreeByDate  == <<FbTransaction(1, 1, 1, <<500, 0>>),
                  FbTransaction(2, 5, 2, <<0, 200>>),
                  FbTransaction(3, 10, 3, <<300, 0>>)>>
\* the same three handed over newest first, created in another order
ThreeShuffled == <<FbTransaction(3, 10, 1, <<300, 0>>),
                   FbTransaction(1, 1, 3, <<500, 0>>),
                   FbTransaction(2, 5, 2, <<0, 200>>)>>
ScenarioInputs == {SingleDebit, SingleCredit, ThreeByDate, ThreeShuffled}

EntryChoices == Dates \X CreatedAts \X Amounts

\* Document ids are unique; they follow the list's order or its reverse.
BoundedInput(n, choice, reversedIds) ==
    [i \in 1..n |-> FbTransaction(IF reversedIds THEN n + 1 - i ELSE i,
                                  choice[i][1], choice[i][2], choice[i][3])]

ServerIdle ==
    /\ clients = {}
    /\ transactions = {}
    /\ nextId = 1
    /\ response = NoResponse
    /\ request = <<>>
    /\ files = {}

EngineInit ==
    /\ \/ input \in ScenarioInputs
       \/ \E n \in 0..MaxLen : \E choice \in [1..n -> EntryChoices] :
            \E reversedIds \in BOOLEAN :
                input = BoundedInput(n, choice, reversedIds)
    /\ call = NoCall
    /\ output = <<>>
    /\ ServerIdle

\* One behaviour is one call: the function keeps no state between calls.
Calculate(sortField, sortOrder) ==
    /\ call = NoCall
    /\ call' = [sortField |-> sortField, sortOrder |-> sortOrder]
    /\ output' = calculateTransactionBalances(input, sortField, sortOrder)
    /\ input' = transactionsAfterCall(input, sortField, sortOrder)
    /\ UNCHANGED serverVars

\* The client list asks for the balance of the client whose ledger is shown.
FirebaseGetClientBalance ==
    /\ call # NoCall
    /\ response = NoResponse
    /\ response' = Respond("firebase.getClientBalance",
                           firebaseGetClientBalance(input), {})
    /\ UNCHANGED <<clients, transactions, nextId, request, engineVars>>

EngineNext ==
    \E sortField \in SortFields, sortOrder \in SortOrders :
        Calculate(sortField, sortOrder)

SpecEngine == EngineInit /\ [][EngineNext]_vars

\* The Firebase client: the ledger page computes the balances of a client's
\* transactions, the client list asks for the client's current balance.
FirebaseNext ==
    \/ \E sortField \in SortFields, sortOrder \in SortOrders :
           Calculate(sortField, sortOrder)
    \/ FirebaseGetClientBalance

SpecFirebase == EngineInit /\ [][FirebaseNext]_vars

(***************************************************************************)
(* The ways an entry gets into a store: the transaction form in front of   *)
(* the Firebase functions, and the POST and PUT routes in front of         *)
(* DatabaseStorage.  Amounts arrive as text; the texts here are the ones   *)
(* an <input type="number"> can hold.                                      *)
(***************************************************************************)
FormAmountTexts == {"100", "30", "0", "-5", ""}
FormTypes == {"credit", "debit"}

\* parseFloat of a text the amount field holds
parseFloat(text) ==
    CASE text = "100" -> 100
      [] text = "30"  -> 30
      [] text = "0"   -> 0
      [] text = "-5"  -> -5

\* transactionFormSchema: amount is z.string().min(1), type is the enum
transactionFormSchema(type, amountText) ==
    /\ type \in FormTypes
    /\ amountText # ""

\* handleSubmit: <<debitAmount, creditAmount>> of the transactionData it
\* hands to onSubmit
handleSubmit(type, amountText) ==
    LET amount == parseFloat(amountText)
    IN  <<IF type = "debit" THEN amount ELSE 0,
          IF type = "credit" THEN amount ELSE 0>>

\* Ledger page, create form -> createTransaction of firebaseDb.ts: addDoc of
\* the submitted data with createdAt = now; the document id is new.
FirebaseCreateTransaction(date, type, amountText) ==
    /\ transactions = {}            \* the installation keeps its ledgers in Firestore
    /\ Len(input) < MaxLen
    /\ transactionFormSchema(type, amountText)
    /\ LET transactionData == handleSubmit(type, amountText)
           debitAmount  == transactionData[1]       \* transactionData.debitAmount || 0
           creditAmount == transactionData[2]
       IN  input' = Append(input,
                       FbTransaction(Len(input) + 1, date, Len(input) + 1,
                                     <<debitAmount, creditAmount>>))
    /\ UNCHANGED <<call, output, serverVars>>

\* Ledger page, edit form -> updateTransaction of firebaseDb.ts: updateDoc
\* with the submitted data
FirebaseUpdateTransaction(transactionId, date, type, amountText) ==
    /\ transactionId \in 1..Len(input)
    /\ transactionFormSchema(type, amountText)
    /\ LET transactionData == handleSubmit(type, amountText)
       IN  input' = [input EXCEPT ![transactionId] =
                        [@ EXCEPT !.date = date,
                                  !.debitAmount = transactionData[1],
                                  !.creditAmount = transactionData[2]]]
    /\ UNCHANGED <<call, output, serverVars>>

\* <<debitAmount, creditAmount>> a request body can carry (numeric text; a
\* missing amount is replaced by "0")
RouteAmounts == Amounts \cup {<<0, 0>>, <<-5, 0>>}

\* insertTransactionSchema of the server (createInsertSchema(transactions)
\* .omit(...)): the numeric columns are optional strings, with no rule on
\* their sign and none that ties the two amounts together.
insertTransactionSchema(amount) == amount \in RouteAmounts

\* POST /api/clients/:clientId/transactions: the body goes to
\* storage.createTransaction as it came, no schema is applied
PostTransaction(clientId, userId, date, body) ==
    /\ input = <<>>                 \* the installation keeps its ledgers in PostgreSQL
    /\ createTransaction(clientId, userId, date, body)

\* The bodies of a PUT that edits the amounts of a row.
RoutePatches ==
    {p \in [hasDate : {FALSE}, date : Dates, hasAmount : {TRUE}, amount : RouteAmounts,
            hasClient : {FALSE}, clientId : {0}] :
        p.date = CHOOSE d \in Dates : TRUE}

\* PUT /api/transactions/:id: insertTransactionSchema.partial().parse(body),
\* then storage.updateTransaction
PutTransaction(id, userId, patch) ==
    /\ insertTransactionSchema(patch.amount)
    /\ updateTransaction(id, userId, patch)

EntryNext ==
    \/ \E type \in FormTypes, amountText \in FormAmountTexts :
           FirebaseCreateTransaction(MaxDate, type, amountText)
    \/ \E transactionId \in 1..MaxLen, date \in Dates, type \in FormTypes,
           amountText \in FormAmountTexts :
           FirebaseUpdateTransaction(transactionId, date, type, amountText)
    \/ \E date \in Dates, body \in RouteAmounts :
           PostTransaction(1, "u1", date, body)
    \/ \E id \in 1..MaxRows, patch \in RoutePatches :
           PutTransaction(id, "u1", patch)

SpecEntry == ServerInit /\ [][EntryNext]_vars

(***************************************************************************)
(* Monthly totals.  Here a date is an instant on a calendar of two-day     *)
(* months with four marks a day: the local midnight, the UTC midnight of   *)
(* a zone ahead of UTC (05:45 in Kathmandu), noon, and 23:59:59.999.  A    *)
(* month is its index counted from the first month of the calendar.        *)
(***************************************************************************)
FirstDay(month) == 2 * month - 1
LastDay(month)  == 2 * month

Midnight(day) == 4 * day
Noon(day)     == 4 * day + 2
EndOfDay(day) == 4 * day + 3            \* setHours(23, 59, 59, 999)
LocalDay(instant) == instant \div 4

\* The calendar month the instant lies in.
MonthOf(instant) == (LocalDay(instant) + 1) \div 2

\* date.toISOString().split('T')[0]: the UTC day of the instant
isoDay(instant, aheadOfUtc) ==
    IF aheadOfUtc /\ instant % 4 = 0 THEN LocalDay(instant) - 1
    ELSE LocalDay(instant)

\* new Date("YYYY-MM-DD"): the UTC midnight of the day
parseIsoDay(day, aheadOfUtc) ==
    IF aheadOfUtc THEN Midnight(day) + 1 ELSE Midnight(day)

\* totalX += parseFloat(transaction.xAmount || '0') over the rows
RECURSIVE sumColumn(_, _)
sumColumn(rows, column) ==
    IF rows = {} THEN 0
    ELSE LET transaction == CHOOSE r \in rows : TRUE
         IN  transaction[column] + sumColumn(rows \ {transaction}, column)

\* DatabaseStorage.getMonthlyTotals: the rows its select returns
monthlyTransactions(table, userId, month) ==
    LET startDate == Midnight(FirstDay(month))      \* new Date(year, month - 1, 1)
        endDate   == Midnight(LastDay(month))       \* new Date(year, month, 0)
    IN  {r \in table : /\ r.userId = userId
                       /\ r.date >= startDate
                       /\ r.date <= endDate}

getMonthlyTotals(userId, month) ==
    /\ LET rows == monthlyTransactions(transactions, userId, month)
           totalCredits == sumColumn(rows, "creditAmount")
           totalDebits  == sumColumn(rows, "debitAmount")
       IN  response' = Respond("getMonthlyTotals",
                              [userId |-> userId, month |-> month,
                               totalDebit |-> totalDebits,
                               totalCredit |-> totalCredits,
                               net |-> totalCredits - totalDebits,
                               counted |-> {r.id : r \in rows}],
                              {})
    /\ UNCHANGED <<clients, transactions, nextId, request, engineVars>>

\* getTransactions of firebaseDb.ts with startDate and endDate filters, over
\* the documents of users/{userId}/clients/{clientId}/transactions
firebaseFiltered(table, userId, clientId, startDay, endDay, aheadOfUtc) ==
    LET startDate == parseIsoDay(startDay, aheadOfUtc)
        endDate   == EndOfDay(LocalDay(parseIsoDay(endDay, aheadOfUtc)))
    IN  {t \in LedgerRows(table, clientId, userId) :
            t.date >= startDate /\ t.date <= endDate}

\* getMonthlyTotals of firebaseDb.ts, in a browser whose zone is UTC or
\* ahead of it
FirebaseGetMonthlyTotals(userId, month, aheadOfUtc) ==
    /\ LET startDate == Midnight(FirstDay(month))
           endDate   == EndOfDay(LastDay(month))
           ownClients == {c \in clients : c.userId = userId}
           rows == UNION {firebaseFiltered(transactions, userId, c.id,
                                           isoDay(startDate, aheadOfUtc),
                                           isoDay(endDate, aheadOfUtc),
                                           aheadOfUtc) : c \in ownClients}
           totalDebit  == sumColumn(rows, "debitAmount")
           totalCredit == sumColumn(rows, "creditAmount")
       IN  response' = Respond("firebase.getMonthlyTotals",
                              [userId |-> userId, month |-> month,
                               totalDebit |-> totalDebit,
                               totalCredit |-> totalCredit,
                               net |-> totalCredit - totalDebit,
                               counted |-> {r.id : r \in rows}],
                              {})
    /\ UNCHANGED <<clients, transactions, nextId, request, engineVars>>

\* The month reported on, the last day of the month before it and the first
\* day of the month after it.
ReportMonth == 2
ReportDates ==
    {Noon(LastDay(ReportMonth - 1)),
     Midnight(FirstDay(ReportMonth)),
     Midnight(LastDay(ReportMonth)),
     Noon(LastDay(ReportMonth)),
     Midnight(FirstDay(ReportMonth + 1))}

ReportNext ==
    \/ \E c \in ReportClientRows, date \in ReportDates, amount \in Amounts :
           createTransaction(c.id, c.userId, date, amount)
    \/ \E userId \in Users : getMonthlyTotals(userId, ReportMonth)
    \/ \E userId \in Users, aheadOfUtc \in BOOLEAN :
           FirebaseGetMonthlyTotals(userId, ReportMonth, aheadOfUtc)

SpecReports == LedgersInit /\ [][ReportNext]_vars

(***************************************************************************)
(* A pass of recalculateBalances on its own, as an update that writes the  *)
(* values a row already has runs it (a PUT sent again), and a pass that    *)
(* ends after the first written rows of its listing.                       *)
(***************************************************************************)
recalculateBalances(clientId, userId) ==
    /\ \E allTransactions \in OrderByDate(LedgerRows(transactions, clientId, userId)) :
         transactions' = recalcWritten(transactions, allTransactions,
                                       Len(allTransactions))
    /\ response' = Respond("recalculateBalances", "void", {<<clientId, userId>>})
    /\ UNCHANGED <<clients, nextId, request, engineVars>>

recalculateBalancesCutShort(clientId, userId, written) ==
    /\ \E allTransactions \in OrderByDate(LedgerRows(transactions, clientId, userId)) :
         /\ written < Len(allTransactions)
         /\ transactions' = recalcWritten(transactions, allTransactions, written)
    /\ response' = Respond("recalculateBalances", "rejected", {})
    /\ UNCHANGED <<clients, nextId, request, engineVars>>

RecomputeNext ==
    \/ \E date \in Dates, amount \in Amounts : createTransaction(1, "u1", date, amount)
    \/ recalculateBalances(1, "u1")
    \/ \E written \in 0..MaxRows : recalculateBalancesCutShort(1, "u1", written)

SpecRecompute == ServerInit /\ [][RecomputeNext]_vars

\* One ledger under every mutation: u1 enters, corrects and deletes
\* transactions of one client and u2 sends the same corrections and deletions
\* with the ids of u1's rows.  A correction carries a new date or new
\* amounts.  The store has had a first transaction that was deleted again:
\* its id names no row any more.
RepairPatches == {p \in Patches : p.hasDate # p.hasAmount}

RepairInit ==
    /\ clients = ClientRows
    /\ transactions = {}
    /\ nextId = 2
    /\ response = NoResponse
    /\ request = <<>>
    /\ files = {}
    /\ input = <<>>
    /\ call = NoCall
    /\ output = <<>>

RepairNext ==
    \/ \E date \in Dates, amount \in Amounts :
           createTransaction(1, "u1", date, amount)
    \/ \E id \in 1..MaxRows, userId \in Users, patch \in RepairPatches :
           updateTransaction(id, userId, patch)
    \/ \E id \in 1..MaxRows, userId \in Users :
           deleteTransaction(id, userId)

SpecRepair == RepairInit /\ [][RepairNext]_vars

(***************************************************************************)
(* getTransactions with filters.  The query is built with                  *)
(*     query = query.where(...)                                            *)
(* once for the client and the user and once more for every filter given.  *)
(* A Drizzle select keeps one where condition: each call of where()        *)
(* replaces the condition set before, so the query that runs carries the   *)
(* condition of the last filter alone.                                     *)
(***************************************************************************)
NoFilters == [hasStartDate |-> FALSE, startDate |-> 0,
              hasEndDate |-> FALSE, endDate |-> 0, type |-> "all"]

\* the condition the query carries when it is run
finalWhere(r, clientId, userId, filters) ==
    IF filters.type = "debit" THEN r.debitAmount = 0           \* eq(debitAmount, '0')
    ELSE IF filters.type = "credit" THEN r.creditAmount = 0    \* eq(creditAmount, '0')
    ELSE IF filters.hasEndDate THEN r.date <= filters.endDate
    ELSE IF filters.hasStartDate THEN r.date >= filters.startDate
    ELSE r.clientId = clientId /\ r.userId = userId

selectTransactions(table, clientId, userId, filters) ==
    {r \in table : finalWhere(r, clientId, userId, filters)}

getTransactionsFiltered(clientId, userId, filters) ==
    /\ \E rows \in OrderByDateDesc(
                      selectTransactions(transactions, clientId, userId, filters)) :
         response' = Respond("getTransactionsFiltered",
                             [clientId |-> clientId, userId |-> userId,
                              filters |-> filters, rows |-> rows],
                             {})
    /\ UNCHANGED <<clients, transactions, nextId, request, engineVars>>

\* storage.getTransaction as a call of its own
GetTransaction(id, userId) ==
    /\ response' = Respond("getTransaction",
                           [id |-> id, userId |-> userId,
                            found |-> getTransaction(transactions, id, userId)],
                           {})
    /\ UNCHANGED <<clients, transactions, nextId, request, engineVars>>

\* The day the entries of the two users carry, and the filters of a request
\* for the entries from that day on, up to that day, or of one type.
SharedDay == Midnight(FirstDay(ReportMonth))

RequestFilters ==
    {NoFilters,
     [NoFilters EXCEPT !.hasStartDate = TRUE, !.startDate = SharedDay],
     [NoFilters EXCEPT !.hasEndDate = TRUE, !.endDate = SharedDay],
     [NoFilters EXCEPT !.type = "credit"],
     [NoFilters EXCEPT !.type = "debit"]}

\* Two users at work on the same store.  The POST route takes the client id
\* from the URL and the user from the session and does not compare the two.
IsolationNext ==
    \/ \E c \in ClientRows, userId \in Users, amount \in Amounts :
           createTransaction(c.id, userId, SharedDay, amount)
    \/ \E id \in 1..MaxRows, userId \in Users, patch \in {p \in Patches : ~p.hasDate} :
           updateTransaction(id, userId, patch)
    \/ \E id \in 1..MaxRows, userId \in Users : deleteTransaction(id, userId)
    \/ \E id \in 1..MaxRows, userId \in Users : GetTransaction(id, userId)
    \/ \E c \in ClientRows, userId \in Users : getClientBalance(c.id, userId)
    \/ \E c \in ClientRows, userId \in Users, filters \in RequestFilters :
           getTransactionsFiltered(c.id, userId, filters)
    \/ \E userId \in Users : getMonthlyTotals(userId, ReportMonth)

SpecIsolation == LedgersInit /\ [][IsolationNext]_vars

(***************************************************************************)
(* Numbers.  A JavaScript Number is an IEEE 754 binary64 value.  A finite  *)
(* one is modelled by its sign and the set of the binary places that are 1 *)
(* in its magnitude: place p stands for 2^p, so 0.5 is {-1} and 3 is       *)
(* {0, 1}.  The places of a Number span at most 53 positions.  The         *)
(* amounts of the ledger are far from the overflow and underflow ranges,   *)
(* which are left out.  A decimal amount is counted in hundredths: 10 is   *)
(* the text "0.10".                                                        *)
(***************************************************************************)
HighestPlace(places) == CHOOSE p \in places : \A q \in places : q <= p
LowestPlace(places)  == CHOOSE p \in places : \A q \in places : q >= p

\* Binary addition, place by place: a carry comes into place p from the
\* nearest place below it where both magnitudes have a 1, if each place in
\* between has a 1 in one of them.
carryInto(a, b, p) ==
    \E q \in a \cap b :
        q < p /\ \A r \in (q + 1)..(p - 1) : r \in a \cup b

\* the exact sum of two magnitudes
SumOfPlaces(a, b) ==
    IF a \cup b = {} THEN {}
    ELSE {p \in LowestPlace(a \cup b)..(HighestPlace(a \cup b) + 1) :
            ((p \in a) # (p \in b)) # carryInto(a, b, p)}

\* Binary subtraction: a borrow comes into place p from the nearest place
\* below it where b has a 1 and a has none, if no place in between has a 1
\* in a and none in b.
borrowInto(a, b, p) ==
    \E q \in b \ a :
        q < p /\ \A r \in (q + 1)..(p - 1) : r \notin a \ b

\* the exact difference a - b of two magnitudes, a the larger
DifferenceOfPlaces(a, b) ==
    IF a \cup b = {} THEN {}
    ELSE {p \in LowestPlace(a \cup b)..HighestPlace(a \cup b) :
            ((p \in a) # (p \in b)) # borrowInto(a, b, p)}

LargerPlaces(a, b) ==
    a # b /\ HighestPlace((a \ b) \cup (b \ a)) \in a

\* Rounding of an exact magnitude to the 53 places of a binary64, to the
\* nearest and on a tie to the even one.  inexact: the magnitude has a
\* remainder below its lowest place.
roundTiesToEven(places, inexact) ==
    IF places = {} THEN {}
    ELSE LET lowest == HighestPlace(places) - 52
             kept   == {p \in places : p >= lowest}
             half   == (lowest - 1) \in places
             below  == inexact \/ \E p \in places : p < lowest - 1
         IN  IF half /\ (below \/ lowest \in kept)
             THEN SumOfPlaces(kept, {lowest})
             ELSE kept

Number(negative, places) ==
    [negative |-> negative /\ places # {}, places |-> places]

\* x + y of two Numbers
NumberAdd(x, y) ==
    IF x.negative = y.negative
    THEN Number(x.negative, roundTiesToEven(SumOfPlaces(x.places, y.places), FALSE))
    ELSE IF x.places = y.places THEN Number(FALSE, {})
    ELSE IF LargerPlaces(x.places, y.places)
         THEN Number(x.negative,
                     roundTiesToEven(DifferenceOfPlaces(x.places, y.places), FALSE))
         ELSE Number(y.negative,
                     roundTiesToEven(DifferenceOfPlaces(y.places, x.places), FALSE))

\* x - y of two Numbers
NumberSubtract(x, y) ==
    NumberAdd(x, [negative |-> ~y.negative, places |-> y.places])

\* the places of a whole number below 2^31
wholePlaces(n) == {p \in 0..30 : (n \div 2^p) % 2 = 1}

\* 2^k modulo 100: from 2^2 on the powers of two repeat modulo 100 with
\* period 20
powerOfTwoMod100(k) ==
    IF k < 22 THEN (2^k) % 100 ELSE (2^(((k - 2) % 20) + 2)) % 100

\* what the long division of remainder by 100 has left when it comes to
\* place -k
leftAtPlace(remainder, k) ==
    (remainder * powerOfTwoMod100(k - 1)) % 100

\* the places -1, -2, .., -last of remainder / 100
fractionPlaces(remainder, last) ==
    {-k : k \in {j \in 1..last : 2 * leftAtPlace(remainder, j) >= 100}}

\* parseFloat of a decimal text with two fractional digits, as the columns
\* of numeric(12, 2) and the amount field hold it: the Number nearest to
\* hundredths / 100.  The division is carried to place -64, below the last
\* place of every amount of a hundredth or more.
parseDecimal(hundredths) ==
    LET magnitude == IF hundredths < 0 THEN -hundredths ELSE hundredths
        exact == wholePlaces(magnitude \div 100)
                     \cup fractionPlaces(magnitude % 100, 64)
        left  == leftAtPlace(magnitude % 100, 65)
    IN  Number(hundredths < 0, roundTiesToEven(exact, left # 0))

RECURSIVE placesValue(_)
placesValue(places) ==
    IF places = {} THEN 0
    ELSE LET p == HighestPlace(places)
         IN  2^p + placesValue(places \ {p})

\* A Number written to a numeric(12, 2) column through Number.toString:
\* PostgreSQL rounds the decimal text to two fractional digits, half away
\* from zero.  The text is the shortest that reads back as the Number and
\* lies within the Number's own last place of it, so that it rounds as the
\* Number's exact value 100 * x does (the values here are nowhere near half
\* a hundredth).
numericOfNumber(x) ==
    LET shifted(k) == {p + k : p \in x.places}
        times100 == SumOfPlaces(SumOfPlaces(shifted(6), shifted(5)), shifted(2))
        rounded  == placesValue({p \in times100 : p >= 0})
                        + (IF -1 \in times100 THEN 1 ELSE 0)
    IN  IF x.negative THEN -rounded ELSE rounded

(***************************************************************************)
(* The balance arithmetic on decimal amounts.  The Firestore documents     *)
(* hold the Numbers the form made with parseFloat; the server's columns    *)
(* are numeric(12, 2) and come back as decimal texts.  Here the amounts of *)
(* a transaction are its hundredths, and every sum is made on the Numbers  *)
(* parseFloat gives for them, as the code makes it.                        *)
(***************************************************************************)
NumberZero == Number(FALSE, {})

\* runningBalance + transaction.debitAmount - transaction.creditAmount
applyToBalanceNumber(runningBalance, transaction) ==
    NumberSubtract(NumberAdd(runningBalance, parseDecimal(transaction.debitAmount)),
                   parseDecimal(transaction.creditAmount))

RECURSIVE walkBalancesNumber(_, _, _)
walkBalancesNumber(chronological, runningBalance, balanceMap) ==
    IF chronological = <<>> THEN balanceMap
    ELSE LET transaction == Head(chronological)
             newBalance  == applyToBalanceNumber(runningBalance, transaction)
         IN  walkBalancesNumber(Tail(chronological), newBalance,
                                MapSet(balanceMap, transaction.id, newBalance))

\* calculateTransactionBalances with the balances as the Numbers they are
calculateTransactionBalancesNumber(txs, sortField, sortOrder) ==
    LET cmp == [p \in Range(txs) \X Range(txs) |->
                    displayCompare(p[1], p[2], sortField, sortOrder)]
        chron == [p \in Range(txs) \X Range(txs) |->
                    chronologicalCompare(p[1], p[2], sortField)]
        sortedTransactions        == ArraySort(txs, cmp)
        chronologicalTransactions == ArraySort(txs, chron)
        balanceMap == walkBalancesNumber(chronologicalTransactions, NumberZero, <<>>)
    IN  [k \in 1..Len(sortedTransactions) |->
            withBalance(sortedTransactions[k],
                        IF sortedTransactions[k].id \in DOMAIN balanceMap
                        THEN balanceMap[sortedTransactions[k].id]
                        ELSE NumberZero)]

CalculateNumber(sortField, sortOrder) ==
    /\ call = NoCall
    /\ transactions = {}
    /\ call' = [sortField |-> sortField, sortOrder |-> sortOrder]
    /\ output' = calculateTransactionBalancesNumber(input, sortField, sortOrder)
    /\ input' = transactionsAfterCall(input, sortField, sortOrder)
    /\ UNCHANGED serverVars

\* previousBalance + creditAmount - debitAmount, each read with parseFloat
createBalanceNumber(previousBalance, debitAmount, creditAmount) ==
    NumberSubtract(NumberAdd(parseDecimal(previousBalance), parseDecimal(creditAmount)),
                   parseDecimal(debitAmount))

\* createTransaction; balanceAfter goes into its column as
\* (previousBalance + creditAmount - debitAmount).toString()
createTransactionNumber(clientId, userId, date, amount) ==
    /\ nextId <= MaxRows
    /\ input = <<>>
    /\ \E c \in clients : c.id = clientId
    /\ \E latestTransactions \in LatestByDate(LedgerRows(transactions, clientId, userId)) :
         LET previousBalance == IF Len(latestTransactions) > 0
                                THEN latestTransactions[1].balanceAfter ELSE 0
             balanceAfter == numericOfNumber(
                                 createBalanceNumber(previousBalance, amount[1], amount[2]))
             newTransaction == TransactionRow(nextId, userId, clientId, date,
                                              amount, balanceAfter)
         IN  /\ transactions' = transactions \cup {newTransaction}
             /\ response' = Respond("createTransaction", newTransaction, {})
    /\ nextId' = nextId + 1
    /\ UNCHANGED <<clients, request, engineVars>>

\* runningBalance of recalculateBalances after the k-th row of its listing
RECURSIVE recalcBalanceNumberAt(_, _)
recalcBalanceNumberAt(allTransactions, k) ==
    IF k = 0 THEN NumberZero
    ELSE NumberSubtract(
             NumberAdd(recalcBalanceNumberAt(allTransactions, k - 1),
                       parseDecimal(allTransactions[k].creditAmount)),
             parseDecimal(allTransactions[k].debitAmount))

\* the table after set({balanceAfter: runningBalance.toString()}) on the
\* first k rows of the listing
RECURSIVE recalcWrittenNumber(_, _, _)
recalcWrittenNumber(table, allTransactions, k) ==
    IF k = 0 THEN table
    ELSE setBalance(recalcWrittenNumber(table, allTransactions, k - 1),
                    allTransactions[k].id,
                    numericOfNumber(recalcBalanceNumberAt(allTransactions, k)))

recalculateBalancesNumber(clientId, userId) ==
    /\ transactions # {}
    /\ \E allTransactions \in OrderByDate(LedgerRows(transactions, clientId, userId)) :
         transactions' = recalcWrittenNumber(transactions, allTransactions,
                                             Len(allTransactions))
    /\ response' = Respond("recalculateBalances", "void", {<<clientId, userId>>})
    /\ UNCHANGED <<clients, nextId, request, engineVars>>

\* total += parseFloat(transaction.xAmount || '0') along the rows the select
\* returned
RECURSIVE totalNumber(_, _, _)
totalNumber(rows, column, k) ==
    IF k = 0 THEN NumberZero
    ELSE NumberAdd(totalNumber(rows, column, k - 1), parseDecimal(rows[k][column]))

\* getMonthlyTotals: the totals are Numbers, handed out through toString.
\* The text of a Number is the shortest decimal that reads back as that
\* Number, so two totals have the same text exactly if they are the same
\* Number; the response carries the Numbers.  The select has no ORDER BY.
getMonthlyTotalsNumber(userId, month) ==
    /\ transactions # {}
    /\ \E rows \in Listings(monthlyTransactions(transactions, userId, month)) :
         LET totalCredits == totalNumber(rows, "creditAmount", Len(rows))
             totalDebits  == totalNumber(rows, "debitAmount", Len(rows))
         IN  response' = Respond("getMonthlyTotals",
                                [userId |-> userId, month |-> month,
                                 totalDebit |-> totalDebits,
                                 totalCredit |-> totalCredits,
                                 net |-> NumberSubtract(totalCredits, totalDebits),
                                 counted |-> {r.id : r \in Range(rows)}],
                                {})
    /\ UNCHANGED <<clients, transactions, nextId, request, engineVars>>

\* Amounts of ten and twenty hundredths, and a payment of ten.
DecimalAmounts == {<<10, 0>>, <<20, 0>>, <<0, 10>>}

DecimalChoices == Dates \X CreatedAts \X DecimalAmounts

\* The lists of a Firebase ledger, or the empty store of a server.
DecimalInit ==
    /\ \E n \in 0..MaxLen : \E choice \in [1..n -> DecimalChoices] :
           input = BoundedInput(n, choice, FALSE)
    /\ call = NoCall
    /\ output = <<>>
    /\ clients = ClientRows
    /\ transactions = {}
    /\ nextId = 1
    /\ response = NoResponse
    /\ request = <<>>
    /\ files = {}

\* On the server the entries are made in the order of their dates, all in
\* the month reported on.
DecimalNext ==
    \/ \E sortField \in SortFields, sortOrder \in SortOrders :
           CalculateNumber(sortField, sortOrder)
    \/ \E amount \in DecimalAmounts :
           createTransactionNumber(1, "u1", SharedDay + nextId - 1, amount)
    \/ recalculateBalancesNumber(1, "u1")
    \/ getMonthlyTotalsNumber("u1", ReportMonth)

SpecDecimal == DecimalInit /\ [][DecimalNext]_vars

(***************************************************************************)
(* The Firebase ledger page.  getTransactions of firebaseDb.ts reads one   *)
(* page of the client's collection, orderBy(sortField, sortOrder) and      *)
(* limit(pageSize), and applies the type and date filters to the documents *)
(* of that page; Ledger hands the result to calculateTransactionBalances.  *)
(* (The search term, a filter on the page like the others, is left out:    *)
(* the documents here carry no text.)  A filter's date is the instant      *)
(* getTransactions compares with.                                          *)
(***************************************************************************)
\* Firestore orders the documents by the field and, for equal values, by
\* the document id, both in the direction asked for.
firestoreBefore(a, b, sortField, sortOrder) ==
    LET first  == IF sortOrder = "asc" THEN a ELSE b
        second == IF sortOrder = "asc" THEN b ELSE a
    IN  \/ sortValue(first, sortField) < sortValue(second, sortField)
        \/ /\ sortValue(first, sortField) = sortValue(second, sortField)
           /\ first.id < second.id

\* getDocs(query(transactionsRef, orderBy(sortField, sortOrder)))
firestoreOrderBy(docs, sortField, sortOrder) ==
    CHOOSE s \in Listings(Range(docs)) :
        \A i, j \in 1..Len(s) :
            i < j => firestoreBefore(s[i], s[j], sortField, sortOrder)

\* ... limit(pageSize)
firestoreLimit(docs, pageSize) ==
    SubSeq(docs, 1, IF pageSize < Len(docs) THEN pageSize ELSE Len(docs))

\* the client-side filters of getTransactions
passesFilters(t, filters) ==
    /\ filters.transactionType = "debit" => t.debitAmount > 0
    /\ filters.transactionType = "credit" => t.creditAmount > 0
    /\ filters.hasStartDate => t.date >= filters.startDate
    /\ filters.hasEndDate => t.date <= filters.endDate

\* getTransactions(userId, clientId, filters).transactions
firebaseGetTransactions(docs, filters) ==
    LET page == firestoreLimit(
                    firestoreOrderBy(docs, filters.sortField, filters.sortOrder),
                    filters.pageSize)
        keep(t) == passesFilters(t, filters)
    IN  SelectSeq(page, keep)

\* What the page can ask for: a page size from one row to a full ledger,
\* a type, and dates from or up to the middle day.
LedgerFilters ==
    [pageSize : 1..MaxLen, sortField : SortFields, sortOrder : SortOrders,
     transactionType : {"all", "debit", "credit"},
     hasStartDate : {FALSE}, startDate : {0},
     hasEndDate : {FALSE}, endDate : {0}]
    \cup [pageSize : {MaxLen}, sortField : SortFields, sortOrder : SortOrders,
          transactionType : {"all"},
          hasStartDate : {TRUE}, startDate : {MaxDate - 1},
          hasEndDate : {FALSE}, endDate : {0}]
    \cup [pageSize : {MaxLen}, sortField : SortFields, sortOrder : SortOrders,
          transactionType : {"all"},
          hasStartDate : {FALSE}, startDate : {0},
          hasEndDate : {TRUE}, endDate : {MaxDate - 1}]

\* Ledger: the rows of the table, for the filters the page is set to.  input
\* is the client's collection.
LedgerRender(filters) ==
    /\ call = NoCall
    /\ LET paginatedData == firebaseGetTransactions(input, filters)
       IN  output' = calculateTransactionBalances(paginatedData, filters.sortField,
                                                  filters.sortOrder)
    /\ call' = filters
    /\ UNCHANGED <<input, serverVars>>

LedgerNext ==
    \E filters \in LedgerFilters : LedgerRender(filters)

SpecLedger == EngineInit /\ [][LedgerNext]_vars

(***************************************************************************)
(* getMonthlyTotals of firebaseDb.ts with the page it reads.  For every    *)
(* client it calls getTransactions with the two days of the month and      *)
(* pageSize: 1000, and with no sort field, so that the page is the first   *)
(* pageSize documents by createdAt.  The ledgers of the model are short,   *)
(* and the page is scaled with them: it is one document shorter than the   *)
(* longest ledger.                                                         *)
(***************************************************************************)
MonthlyPageSize == MaxRows - 1

\* The documents of a client's collection: createdAt is the time of the
\* addDoc, so it grows with the order in which the documents were entered.
firestoreDocs(table, userId, clientId) ==
    LET rows == LedgerRows(table, clientId, userId)
        docs == {FbTransaction(r.id, r.date, r.id, <<r.debitAmount, r.creditAmount>>) :
                    r \in rows}
    IN  CHOOSE s \in Listings(docs) : TRUE

monthlyFilters(startDay, endDay, aheadOfUtc) ==
    [pageSize |-> MonthlyPageSize, sortField |-> "createdAt", sortOrder |-> "asc",
     transactionType |-> "all",
     hasStartDate |-> TRUE, startDate |-> parseIsoDay(startDay, aheadOfUtc),
     hasEndDate |-> TRUE,
     endDate |-> EndOfDay(LocalDay(parseIsoDay(endDay, aheadOfUtc)))]

FirebaseGetMonthlyTotalsByPage(userId, month, aheadOfUtc) ==
    /\ LET startDate == Midnight(FirstDay(month))
           endDate   == EndOfDay(LastDay(month))
           ownClients == {c \in clients : c.userId = userId}
           result(c) == firebaseGetTransactions(
                            firestoreDocs(transactions, userId, c.id),
                            monthlyFilters(isoDay(startDate, aheadOfUtc),
                                           isoDay(endDate, aheadOfUtc),
                                           aheadOfUtc))
           rows == UNION {Range(result(c)) : c \in ownClients}
           totalDebit  == sumColumn(rows, "debitAmount")
           totalCredit == sumColumn(rows, "creditAmount")
       IN  response' = Respond("firebase.getMonthlyTotals",
                              [userId |-> userId, month |-> month,
                               aheadOfUtc |-> aheadOfUtc,
                               totalDebit |-> totalDebit,
                               totalCredit |-> totalCredit,
                               net |-> totalCredit - totalDebit,
                               counted |-> {r.id : r \in rows}],
                              {})
    /\ UNCHANGED <<clients, transactions, nextId, request, engineVars>>

\* Entries around the reported month, and the report read in the browser.
MonthlyNext ==
    \/ \E c \in ReportClientRows, date \in ReportDates, amount \in Amounts :
           createTransaction(c.id, c.userId, date, amount)
    \/ \E userId \in Users, aheadOfUtc \in BOOLEAN :
           FirebaseGetMonthlyTotalsByPage(userId, ReportMonth, aheadOfUtc)

SpecMonthly == LedgersInit /\ [][MonthlyNext]_vars

(***************************************************************************)
(* Bill images.  Two Appwrite functions, each behind a Firebase ID token:  *)
(* upload-image puts a file into the storage bucket, delete-image removes  *)
(* one.  The repository holds the upload handler twice: the one of         *)
(* appwrite-functions/ takes the JSON body the client sends, the one of    *)
(* functions/ a binary body.  A text (uid, file id) is the sequence of its *)
(* characters.                                                             *)
(***************************************************************************)
MaxFiles == 2       \* files the bucket ever holds

\* String.prototype.substring(start, end), String.prototype.startsWith
substring(text, start, end) ==
    SubSeq(text, start + 1, IF end < Len(text) THEN end ELSE Len(text))

startsWith(text, searchString) ==
    /\ Len(searchString) <= Len(text)
    /\ SubSeq(text, 1, Len(searchString)) = searchString

\* Firebase Authentication gives every account a uid of 28 letters and
\* digits.  Two accounts whose uids begin with the same eight characters.
FirebaseUid(tail) == [i \in 1..28 |-> IF i <= 8 THEN "k" ELSE tail]

Uids == {FirebaseUid("a"), FirebaseUid("b")}

\* The Authorization header of a request: none, or Bearer and a token.  A
\* token names a uid; verifyIdToken accepts it if Firebase signed it and it
\* has not expired.
NoAuthorization == [bearer |-> FALSE, uid |-> <<>>, verifies |-> FALSE]

Authorizations ==
    {NoAuthorization} \cup [bearer : {TRUE}, uid : Uids, verifies : BOOLEAN]

\* ID.unique(): 20 characters.  Depending on the SDK they begin with the
\* time of the call or are the same text at every call; ids made shortly
\* after one another begin with the same characters.
UniqueId(early, late) == [i \in 1..20 |-> IF i <= 6 THEN early ELSE late]

UniqueIds == {UniqueId("6", "1"), UniqueId("6", "2"), UniqueId("7", "1")}

ImageFile(id, uid) ==
    [id |-> id, uploadedBy |-> uid,
     permissions |-> {<<"read", uid>>, <<"delete", uid>>}]

ImageResponse(op, status, req, id) ==
    Respond(op, [status |-> status, request |-> req, id |-> id], {})

\* storage.createFile(bucketId, fileId, ...): the bucket takes no second
\* file under an id; the rejection is caught and answered with 500
createFile(op, req, fileId, uid) ==
    IF \E f \in files : f.id = fileId
    THEN /\ response' = ImageResponse(op, 500, req, <<>>)
         /\ UNCHANGED files
    ELSE /\ Cardinality(files) < MaxFiles
         /\ files' = files \cup {ImageFile(fileId, uid)}
         /\ response' = ImageResponse(op, 200, req, fileId)

\* appwrite-functions/upload-image: fileId is the first 8 characters of the
\* uid, "_", and the first 6 characters of ID.unique()
uploadImage(req, unique) ==
    /\ IF req.method # "POST"
       THEN response' = ImageResponse("upload-image", 405, req, <<>>) /\ UNCHANGED files
       ELSE IF ~req.authorization.bearer
       THEN response' = ImageResponse("upload-image", 401, req, <<>>) /\ UNCHANGED files
       ELSE IF ~req.authorization.verifies        \* verifyIdToken throws: catch (e)
       THEN response' = ImageResponse("upload-image", 500, req, <<>>) /\ UNCHANGED files
       ELSE LET uid == req.authorization.uid
                userPrefix   == substring(uid, 0, 8)
                uniqueSuffix == substring(unique, 0, 6)
                fileId == userPrefix \o <<"_">> \o uniqueSuffix
            IN  createFile("upload-image", req, fileId, uid)
    /\ UNCHANGED <<input, call, output, clients, transactions, nextId, request>>

\* functions/upload-image: fileId is the uid, "_", and ID.unique()
uploadImageBinary(req, unique) ==
    /\ IF req.method # "POST"
       THEN response' = ImageResponse("upload-image", 405, req, <<>>) /\ UNCHANGED files
       ELSE IF ~req.authorization.bearer
       THEN response' = ImageResponse("upload-image", 401, req, <<>>) /\ UNCHANGED files
       ELSE IF ~req.authorization.verifies
       THEN response' = ImageResponse("upload-image", 401, req, <<>>) /\ UNCHANGED files
       ELSE LET uid == req.authorization.uid
                fileId == uid \o <<"_">> \o unique
            IN  createFile("upload-image", req, fileId, uid)
    /\ UNCHANGED <<input, call, output, clients, transactions, nextId, request>>

\* The look-alike check that compares the id with the prefix the upload
\* function gave it.
belongsToUser_byUserPrefix(imageId, uid) ==
    startsWith(imageId, substring(uid, 0, 8) \o <<"_">>)

\* imageId.startsWith(`${decodedToken.uid}_`)
belongsToUser(imageId, uid) ==
    startsWith(imageId, uid \o <<"_">>)

\* delete-image
deleteImage(req) ==
    /\ IF req.method # "DELETE"
       THEN response' = ImageResponse("delete-image", 405, req, <<>>) /\ UNCHANGED files
       ELSE IF ~req.authorization.bearer
       THEN response' = ImageResponse("delete-image", 401, req, <<>>) /\ UNCHANGED files
       ELSE IF ~req.authorization.verifies
       THEN response' = ImageResponse("delete-image", 401, req, <<>>) /\ UNCHANGED files
       ELSE IF req.imageId = <<>>
       THEN response' = ImageResponse("delete-image", 400, req, <<>>) /\ UNCHANGED files
       ELSE IF ~belongsToUser(req.imageId, req.authorization.uid)
       THEN response' = ImageResponse("delete-image", 403, req, <<>>) /\ UNCHANGED files
       ELSE IF ~\E f \in files : f.id = req.imageId   \* deleteFile rejects with code 404
       THEN response' = ImageResponse("delete-image", 404, req, <<>>) /\ UNCHANGED files
       ELSE /\ files' = {f \in files : f.id # req.imageId}
            /\ response' = ImageResponse("delete-image", 200, req, req.imageId)
    /\ UNCHANGED <<input, call, output, clients, transactions, nextId, request>>

Methods == {"POST", "DELETE"}

UploadRequests == [method : Methods, authorization : Authorizations]

\* The file ids the two upload functions can make.
FileIds ==
    {substring(uid, 0, 8) \o <<"_">> \o substring(unique, 0, 6) :
         uid \in Uids, unique \in UniqueIds}
    \cup {uid \o <<"_">> \o unique : uid \in Uids, unique \in UniqueIds}

\* A delete request names a file id or none.
DeleteRequests ==
    [method : Methods, authorization : Authorizations,
     imageId : FileIds \cup {<<>>}]

ImagesInit ==
    /\ files = {}
    /\ response = NoResponse
    /\ clients = {}
    /\ transactions = {}
    /\ nextId = 1
    /\ request = <<>>
    /\ input = <<>>
    /\ call = NoCall
    /\ output = <<>>

ImagesNext ==
    \/ \E req \in UploadRequests, unique \in UniqueIds : uploadImage(req, unique)
    \/ \E req \in UploadRequests, unique \in UniqueIds : uploadImageBinary(req, unique)
    \/ \E req \in DeleteRequests : deleteImage(req)

SpecImages == ImagesInit /\ [][ImagesNext]_vars

(***************************************************************************)
(* Reference notions the engine claims are stated with.  They are written  *)
(* independently of ArraySort and walkBalances.                            *)
(***************************************************************************)
Called == call # NoCall

Net(t) == t.debitAmount - t.creditAmount

RECURSIVE PrefixNet(_, _)
PrefixNet(seq, k) ==
    IF k = 0 THEN 0 ELSE PrefixNet(seq, k - 1) + Net(seq[k])

RECURSIVE SumDebit(_)
SumDebit(seq) ==
    IF seq = <<>> THEN 0 ELSE Head(seq).debitAmount + SumDebit(Tail(seq))

RECURSIVE SumCredit(_)
SumCredit(seq) ==
    IF seq = <<>> THEN 0 ELSE Head(seq).creditAmount + SumCredit(Tail(seq))

\* seq with x put behind the last element whose sort value is <= x's
RECURSIVE InsertAscending(_, _, _)
InsertAscending(seq, x, sortField) ==
    IF seq = <<>> THEN <<x>>
    ELSE IF sortValue(Head(seq), sortField) <= sortValue(x, sortField)
         THEN <<Head(seq)>> \o InsertAscending(Tail(seq), x, sortField)
         ELSE <<x>> \o seq

\* T sorted ascending by the field, equal values kept in the order of T
RECURSIVE AscendingOrder(_, _)
AscendingOrder(seq, sortField) ==
    IF seq = <<>> THEN <<>>
    ELSE InsertAscending(AscendingOrder(SubSeq(seq, 1, Len(seq) - 1), sortField),
                         seq[Len(seq)], sortField)

BalancesOf(list) == [k \in 1..Len(list) |-> list[k].balanceAfter]
IdsOf(list)      == [k \in 1..Len(list) |-> list[k].id]

\* the balance the returned list shows for a transaction id
BalanceShown(list, id) ==
    LET k == CHOOSE k \in 1..Len(list) : list[k].id = id
    IN  list[k].balanceAfter

Shows(list, id) == \E k \in 1..Len(list) : list[k].id = id

(***************************************************************************)
(* C1: After a call, the balanceAfter of the k-th transaction of the input *)
(* sorted ascending by the chosen field is the sum of debitAmount -        *)
(* creditAmount over the first k transactions of that order, from 0; a     *)
(* single debit of 100 gets 100, a single credit of 100 gets -100, and     *)
(* the three transactions of January (debit 500, credit 200, debit 300)    *)
(* get 500, 300, 600.                                                      *)
(***************************************************************************)
C1_RunningSumOfAscendingOrder ==
    Called =>
        LET asc == AscendingOrder(input, call.sortField)
        IN  /\ \A k \in 1..Len(asc) :
                   /\ Shows(output, asc[k].id)
                   /\ BalanceShown(output, asc[k].id) = PrefixNet(asc, k)
            /\ input = SingleDebit  => BalancesOf(output) = <<100>>
            /\ input = SingleCredit => BalancesOf(output) = <<-100>>
            /\ (input = ThreeByDate /\ call.sortField = "date"
                    /\ call.sortOrder = "asc")
                   => BalancesOf(output) = <<500, 300, 600>>

C1_Witness ==
    /\ input = ThreeByDate
    /\ call = [sortField |-> "date", sortOrder |-> "asc"]
    /\ BalancesOf(output) = <<500, 300, 600>>

(***************************************************************************)
(* C2: For a non-empty input and either sort field, the balanceAfter of    *)
(* the chronologically last transaction (the greatest sort value, the      *)
(* latest in the input among equals) is the sum of all debitAmount minus   *)
(* the sum of all creditAmount.                                            *)
(***************************************************************************)
ChronologicallyLast(seq, sortField) ==
    LET i == CHOOSE i \in 1..Len(seq) :
                 \A j \in 1..Len(seq) :
                     /\ sortValue(seq[j], sortField) <= sortValue(seq[i], sortField)
                     /\ (j > i => sortValue(seq[j], sortField)
                                      < sortValue(seq[i], sortField))
    IN  seq[i]

C2_FinalBalanceIsNetSum ==
    (Called /\ input # <<>>) =>
        BalanceShown(output, ChronologicallyLast(input, call.sortField).id)
            = SumDebit(input) - SumCredit(input)

C2_Witness ==
    /\ input = ThreeShuffled
    /\ call.sortField = "createdAt"
    /\ ChronologicallyLast(input, "createdAt").id = 1
    /\ BalanceShown(output, 1) = 600

(***************************************************************************)
(* C3: For the same input and sort field, the call with sortOrder asc and  *)
(* the call with sortOrder desc give every transaction id the same         *)
(* balanceAfter, and the one list is the other's ids in another order; the *)
(* three January transactions read 600, 300, 500 in date desc.             *)
(***************************************************************************)
OtherOrder(sortOrder) == IF sortOrder = "asc" THEN "desc" ELSE "asc"

C3_DisplayOrderKeepsBalances ==
    Called =>
        LET other == calculateTransactionBalances(
                         input, call.sortField, OtherOrder(call.sortOrder))
        IN  /\ Range(IdsOf(other)) = Range(IdsOf(output))
            /\ \A id \in Range(IdsOf(output)) :
                   BalanceShown(other, id) = BalanceShown(output, id)
            /\ (input = ThreeByDate /\ call.sortField = "date"
                    /\ call.sortOrder = "desc")
                   => BalancesOf(output) = <<600, 300, 500>>

C3_Witness ==
    /\ input = ThreeByDate
    /\ call = [sortField |-> "date", sortOrder |-> "desc"]
    /\ IdsOf(output) = <<3, 2, 1>>
    /\ BalancesOf(output) = <<600, 300, 500>>

(***************************************************************************)
(* C9: The returned list is a reordering of the input: same length, the    *)
(* same transactions each exactly once (only balanceAfter added), sorted   *)
(* by the sort field, non-decreasing for asc and non-increasing for desc.  *)
(***************************************************************************)
WithoutBalance(e) == FbTransaction(e.id, e.date, e.createdAt,
                                   <<e.debitAmount, e.creditAmount>>)

C9_OutputIsSortedReordering ==
    Called =>
        /\ Len(output) = Len(input)
        /\ \A i \in 1..Len(input) :
               Cardinality({k \in 1..Len(output) : output[k].id = input[i].id}) = 1
        /\ \A k \in 1..Len(output) : WithoutBalance(output[k]) \in Range(input)
        /\ \A k \in 1..Len(output) - 1 :
               IF call.sortOrder = "asc"
               THEN sortValue(output[k], call.sortField)
                        <= sortValue(output[k + 1], call.sortField)
               ELSE sortValue(output[k], call.sortField)
                        >= sortValue(output[k + 1], call.sortField)

C9_Witness ==
    /\ input = ThreeShuffled
    /\ call = [sortField |-> "createdAt", sortOrder |-> "desc"]
    /\ IdsOf(output) = <<1, 2, 3>>

(***************************************************************************)
(* Reference notions the server claims are stated with.                    *)
(***************************************************************************)
\* the running total of credit - debit, the sign the server books with
ServerNet(r) == r.creditAmount - r.debitAmount

RECURSIVE ServerPrefix(_, _)
ServerPrefix(seq, k) ==
    IF k = 0 THEN 0 ELSE ServerPrefix(seq, k - 1) + ServerNet(seq[k])

RECURSIVE SumOver(_, _)
SumOver(rows, k) ==
    IF rows = {} THEN 0
    ELSE LET r == CHOOSE x \in rows : TRUE
         IN  (IF k = "debit" THEN r.debitAmount ELSE r.creditAmount)
                 + SumOver(rows \ {r}, k)

\* Some date-ascending listing of the client's rows carries, row by row, the
\* running total of debit - credit.
StoredAreRunningTotals(table, clientId, userId) ==
    \E s \in OrderByDate(LedgerRows(table, clientId, userId)) :
        \A k \in 1..Len(s) : s[k].balanceAfter = PrefixNet(s, k)

\* The same in the server's sign.
StoredAreServerTotals(table, clientId, userId) ==
    \E s \in OrderByDate(LedgerRows(table, clientId, userId)) :
        \A k \in 1..Len(s) : s[k].balanceAfter = ServerPrefix(s, k)

Mutations == {"createTransaction", "updateTransaction", "deleteTransaction"}

\* a server row as the Firebase client holds the same transaction
AsFirebase(r) ==
    FbTransaction(r.id, r.date, r.id, <<r.debitAmount, r.creditAmount>>)

(***************************************************************************)
(* C11: Every transaction a store holds has amounts that are not negative  *)
(* and not both zero: the rows of the server's transactions table and the  *)
(* documents of the Firebase collection the balances are computed from.    *)
(***************************************************************************)
WellFormedAmounts(t) ==
    /\ t.debitAmount >= 0
    /\ t.creditAmount >= 0
    /\ t.debitAmount > 0 \/ t.creditAmount > 0

C11_StoredAmountsAreWellFormed ==
    /\ \A r \in transactions : WellFormedAmounts(r)
    /\ \A i \in 1..Len(input) : WellFormedAmounts(input[i])

(***************************************************************************)
(* C12: The monthly totals of a user are the sum of debitAmount, the sum   *)
(* of creditAmount and their difference credit - debit, over the           *)
(* transactions of all of the user's clients dated in the month, and over  *)
(* nothing else.                                                           *)
(***************************************************************************)
MonthlyReports == {"getMonthlyTotals", "firebase.getMonthlyTotals"}

DatedInMonth(table, userId, month) ==
    {r \in table : r.userId = userId /\ MonthOf(r.date) = month}

C12_MonthlyTotalsAreSumsOverTheMonth ==
    response.op \in MonthlyReports =>
        LET rows == DatedInMonth(transactions, response.result.userId,
                                 response.result.month)
        IN  /\ response.result.totalDebit = SumOver(rows, "debit")
            /\ response.result.totalCredit = SumOver(rows, "credit")
            /\ response.result.net
                   = SumOver(rows, "credit") - SumOver(rows, "debit")

(***************************************************************************)
(* C13: The monthly totals count a transaction exactly if its date lies in *)
(* the requested calendar month, the first and the last day included at    *)
(* any time of day.                                                        *)
(***************************************************************************)
C13_CountedIffDatedInMonth ==
    response.op \in MonthlyReports =>
        \A r \in transactions :
            r.userId = response.result.userId =>
                (r.id \in response.result.counted
                     <=> MonthOf(r.date) = response.result.month)

(***************************************************************************)
(* C14: The Firebase getClientBalance of a client equals the balanceAfter  *)
(* calculateTransactionBalances gives the chronologically last of the      *)
(* client's transactions, by date and by createdAt alike, and is 0 for a   *)
(* client without transactions.                                            *)
(***************************************************************************)
C14_FirebaseBalanceIsLastRunningBalance ==
    response.op = "firebase.getClientBalance" =>
        IF input = <<>> THEN response.result = 0
        ELSE response.result =
                 BalanceShown(output, ChronologicallyLast(input, call.sortField).id)

C14_Witness ==
    /\ response.op = "firebase.getClientBalance"
    /\ input = ThreeShuffled
    /\ call.sortField = "createdAt"
    /\ response.result = 600
    /\ BalanceShown(output, ChronologicallyLast(input, "createdAt").id) = 600

(***************************************************************************)
(* C15: Balances are kept per (user, client).  A create, update or delete  *)
(* changes the balanceAfter of no transaction outside the ledgers of the   *)
(* transaction it acts on (the one it is in and, if the update names       *)
(* another client, the one it goes to); and the balanceAfter of every      *)
(* stored transaction is a total of credit - debit over transactions of    *)
(* its own ledger, itself among them.                                      *)
(***************************************************************************)
LedgerOf(r) == <<r.clientId, r.userId>>

WithoutBalanceAfter(r) == [r EXCEPT !.balanceAfter = 0]

\* the rows a step inserted, deleted or rewrote in a column other than
\* balanceAfter, before and after the step
ActedOn ==
    LET before == {WithoutBalanceAfter(r) : r \in transactions}
        after  == {WithoutBalanceAfter(r) : r \in transactions'}
    IN  (before \ after) \cup (after \ before)

RECURSIVE SetNet(_)
SetNet(rows) ==
    IF rows = {} THEN 0
    ELSE LET r == CHOOSE x \in rows : TRUE
         IN  ServerNet(r) + SetNet(rows \ {r})

MadeOfOwnLedger(table, r) ==
    \E part \in SUBSET LedgerRows(table, r.clientId, r.userId) :
        r \in part /\ r.balanceAfter = SetNet(part)

PerLedgerStep ==
    /\ \A r \in transactions : \A q \in transactions' :
           (q.id = r.id /\ q.balanceAfter # r.balanceAfter)
               => \/ LedgerOf(q) \in {LedgerOf(t) : t \in ActedOn}
                  \/ LedgerOf(q) \in response'.recalculated
    /\ \A r \in transactions' : MadeOfOwnLedger(transactions', r)

C15_BalancesArePerLedger == [][PerLedgerStep]_vars

(***************************************************************************)
(* C16: Users are isolated on the server.  An update or delete that names  *)
(* a transaction of another user answers not-found and changes no row; a   *)
(* getTransaction returns rows of the caller only; and what                *)
(* getTransactions, getClientBalance and getMonthlyTotals answer a user is *)
(* an answer they give on the store without the rows of the other users.   *)
(***************************************************************************)
OwnRows(table, userId) == {r \in table : r.userId = userId}

OwnedByAnother(id, userId) ==
    \E r \in transactions : r.id = id /\ r.userId # userId

ReadIsBlindToOthers(resp, table) ==
    LET own == OwnRows(table, resp.result.userId)
    IN  /\ resp.op = "getTransaction" =>
               \A r \in resp.result.found : r.userId = resp.result.userId
        /\ resp.op = "getTransactionsFiltered" =>
               resp.result.rows \in OrderByDateDesc(
                   selectTransactions(own, resp.result.clientId,
                                      resp.result.userId, resp.result.filters))
        /\ resp.op = "getClientBalance" =>
               \E latest \in LatestByDate(LedgerRows(own, resp.result.clientId,
                                                     resp.result.userId)) :
                   resp.result.balance =
                       IF Len(latest) > 0 THEN latest[1].balanceAfter ELSE 0
        /\ resp.op = "getMonthlyTotals" =>
               LET rows == monthlyTransactions(own, resp.result.userId,
                                               resp.result.month)
               IN  /\ resp.result.totalDebit = SumOver(rows, "debit")
                   /\ resp.result.totalCredit = SumOver(rows, "credit")

Reads == {"getTransaction", "getTransactionsFiltered", "getClientBalance",
          "getMonthlyTotals"}

\* the user whose call the response answers, for a mutation that found its
\* transaction
ActorOf(resp) ==
    IF resp.op = "createTransaction" THEN {resp.result.userId}
    ELSE {ledger[2] : ledger \in resp.recalculated}

NotFound(resp) ==
    resp.op \in {"updateTransaction", "deleteTransaction"} /\ resp.recalculated = {}

IsolatedStep ==
    /\ \A id \in 1..MaxRows, userId \in Users :
           OwnedByAnother(id, userId)
               => getTransaction(transactions, id, userId) = {}
    /\ NotFound(response') => transactions' = transactions
    /\ \A other \in Users \ ActorOf(response') :
           OwnRows(transactions', other) = OwnRows(transactions, other)
    /\ response'.op \in Reads => ReadIsBlindToOthers(response', transactions')

C16_UsersAreIsolated == [][IsolatedStep]_vars

(***************************************************************************)
(* C17: A complete recompute pass leaves running totals whatever the       *)
(* stored balances were before it, a pass cut short included; and a        *)
(* complete pass that follows a complete pass over the same transactions   *)
(* leaves every stored balanceAfter as the first pass left it.             *)
(***************************************************************************)
CompletePass(resp) == resp.op = "recalculateBalances" /\ resp.result = "void"

RecomputeStep ==
    CompletePass(response') =>
        /\ \A ledger \in response'.recalculated :
               StoredAreServerTotals(transactions', ledger[1], ledger[2])
        /\ (CompletePass(response)
                /\ response.recalculated = response'.recalculated)
               => transactions' = transactions

C17_RecomputeIsIdempotent == [][RecomputeStep]_vars

(***************************************************************************)
(* C18: The returned list is fixed by the input list, the sort field and   *)
(* the sort order alone, so that two calls with the same arguments return  *)
(* the same list: the transactions come out by the sort field, those with  *)
(* the same value of it in the order they have in the input, for asc and   *)
(* for desc, each with the balance of its place in the ascending order.    *)
(***************************************************************************)
\* seq with x put behind the last element whose sort value is >= x's
RECURSIVE InsertDescending(_, _, _)
InsertDescending(seq, x, sortField) ==
    IF seq = <<>> THEN <<x>>
    ELSE IF sortValue(Head(seq), sortField) >= sortValue(x, sortField)
         THEN <<Head(seq)>> \o InsertDescending(Tail(seq), x, sortField)
         ELSE <<x>> \o seq

RECURSIVE DescendingOrder(_, _)
DescendingOrder(seq, sortField) ==
    IF seq = <<>> THEN <<>>
    ELSE InsertDescending(DescendingOrder(SubSeq(seq, 1, Len(seq) - 1), sortField),
                          seq[Len(seq)], sortField)

C18_SameInputSameOutput ==
    Called =>
        LET asc == AscendingOrder(input, call.sortField)
            shown == IF call.sortOrder = "asc" THEN asc
                     ELSE DescendingOrder(input, call.sortField)
        IN  /\ IdsOf(output) = IdsOf(shown)
            /\ \A k \in 1..Len(asc) :
                   BalanceShown(output, asc[k].id) = PrefixNet(asc, k)

C18_Witness ==
    /\ Called
    /\ Len(input) = 3
    /\ call.sortOrder = "desc"
    /\ \A i, j \in 1..Len(input) :
           sortValue(input[i], call.sortField) = sortValue(input[j], call.sortField)
    /\ IdsOf(output) = IdsOf(input)
    /\ IdsOf(input) = <<3, 2, 1>>

(***************************************************************************)
(* C19: Called with an empty list, for every sort field and sort order,    *)
(* calculateTransactionBalances returns an empty list.                     *)
(***************************************************************************)
C19_EmptyInEmptyOut ==
    (Called /\ input = <<>>) => output = <<>>

C19_Witness ==
    /\ input = <<>>
    /\ call = [sortField |-> "createdAt", sortOrder |-> "desc"]
    /\ output = <<>>

(***************************************************************************)
(* C20: A call leaves the list it was handed as it was: the same elements  *)
(* in the same order, none of them with a balanceAfter or any other field  *)
(* gained or changed; balanceAfter is on the returned entries only.        *)
(***************************************************************************)
FbFields == {"id", "date", "createdAt", "debitAmount", "creditAmount"}

C4_StoredBalancesFollowSpec ==
    response.op \in Mutations =>
        \A c \in clients : StoredAreRunningTotals(transactions, c.id, c.userId)

(***************************************************************************)
(* C5: After a recalculateBalances pass over a client, the balanceAfter    *)
(* stored on each of the client's rows is the balanceAfter that            *)
(* calculateTransactionBalances computes by date for the same transactions *)
(* (handed over in some order).                                            *)
(***************************************************************************)
C5_PersistedEqualsComputed ==
    \A ledger \in response.recalculated :
        LET rows == LedgerRows(transactions, ledger[1], ledger[2])
        IN  \E listing \in Listings(rows) :
                LET computed == calculateTransactionBalances(
                                    [k \in 1..Len(listing) |-> AsFirebase(listing[k])],
                                    "date", "asc")
                IN  \A r \in rows : r.balanceAfter = BalanceShown(computed, r.id)

(***************************************************************************)
(* C6: getClientBalance returns the running balance of the client's        *)
(* chronologically last transaction, which is the total of the client's    *)
(* entries, and 0 for a client without transactions.  The total is taken   *)
(* in the server's own sign (credit - debit), and the formula speaks of    *)
(* the ledgers whose dates are all different, where the last transaction   *)
(* is one row whatever order the database lists equal dates in.            *)
(***************************************************************************)
DistinctDates(rows) == \A r1, r2 \in rows : r1.date = r2.date => r1 = r2

C6_CurrentBalanceIsLastRunningBalance ==
    response.op = "getClientBalance" =>
        LET rows == LedgerRows(transactions, response.result.clientId,
                               response.result.userId)
        IN  DistinctDates(rows) =>
                response.result.balance
                    = SumOver(rows, "credit") - SumOver(rows, "debit")

(***************************************************************************)
(* C7: Once two interleaved mutations of one client's transactions have    *)
(* both completed, the stored balanceAfter values are the chronological    *)
(* running balance of the final set of transactions (in the server's       *)
(* sign).                                                                  *)
(***************************************************************************)
C7_InterleavedMutationsLeaveRunningBalances ==
    (\A w \in Workers : request[w].pc = "done") =>
        StoredAreServerTotals(transactions, 1, "u1")

(***************************************************************************)
(* C8: A recompute pass that is cut short leaves either every row it read  *)
(* with the balance the pass computed or every such row with the balance   *)
(* it had when the pass read it.  (Stated for the passes over rows of      *)
(* different dates, whose order the database fixes.)                       *)
(***************************************************************************)
StoredBalance(table, id) == (CHOOSE r \in table : r.id = id).balanceAfter

C8_RecomputeIsAllOrNothing ==
    \A w \in Workers :
        request[w].pc = "failed" =>
            LET all == request[w].allTransactions
            IN  \/ ~DistinctDates(Range(all))
                \/ \A k \in 1..Len(all) :
                       StoredBalance(transactions, all[k].id) = ServerPrefix(all, k)
                \/ \A k \in 1..Len(all) :
                       StoredBalance(transactions, all[k].id) = all[k].balanceAfter

(***************************************************************************)
(* C10: A request for the balance or the transactions of a client that     *)
(* does not exist is never answered with a zero balance or an empty list.  *)
(***************************************************************************)
ClientExists(clientId, userId) ==
    \E c \in clients : c.id = clientId /\ c.userId = userId

C10_UnknownClientIsNotFound ==
    /\ response.op = "getClientBalance" =>
           (ClientExists(response.result.clientId, response.result.userId)
                \/ response.result.balance # 0)
    /\ response.op = "getTransactions" =>
           (ClientExists(response.result.clientId, response.result.userId)
                \/ response.result.rows # <<>>)

(***************************************************************************)
(* C21: With amounts of two fractional digits every balance and every      *)
(* monthly total is the exact decimal sum of the amounts: each balance the *)
(* engine returns is the Number of the decimal running sum (0.10 and 0.20  *)
(* give 0.3), the balances the server stores are the decimal running sums, *)
(* and each monthly total is the Number of the decimal total.              *)
(***************************************************************************)
C21_BalancesAreExactDecimalSums ==
    /\ Called =>
           LET asc == AscendingOrder(input, call.sortField)
           IN  \A k \in 1..Len(asc) :
                   BalanceShown(output, asc[k].id) = parseDecimal(PrefixNet(asc, k))
    /\ StoredAreServerTotals(transactions, 1, "u1")
    /\ response.op = "getMonthlyTotals" =>
           LET rows == DatedInMonth(transactions, response.result.userId,
                                    response.result.month)
           IN  /\ response.result.totalDebit = parseDecimal(SumOver(rows, "debit"))
               /\ response.result.totalCredit = parseDecimal(SumOver(rows, "credit"))
               /\ response.result.net
                      = parseDecimal(SumOver(rows, "credit") - SumOver(rows, "debit"))

(***************************************************************************)
(* C22: An image a user uploaded through the upload function can be        *)
(* deleted by that user through the delete function: a DELETE request with *)
(* the user's verified token and the file id the upload returned is        *)
(* answered with success, and the file is gone.                            *)
(***************************************************************************)
VerifiedCaller(req) ==
    IF req.authorization.bearer /\ req.authorization.verifies
    THEN {req.authorization.uid} ELSE {}

OwnerDeleteStep ==
    response'.op = "delete-image" =>
        LET req == response'.result.request
        IN  \A f \in files :
                (/\ req.method = "DELETE"
                 /\ f.id = req.imageId
                 /\ f.uploadedBy \in VerifiedCaller(req))
                    => /\ response'.result.status = 200
                       /\ f \notin files'

C22_OwnerCanDeleteUploadedImage == [][OwnerDeleteStep]_vars

(***************************************************************************)
(* C23: A delete request leaves in the bucket every image that was         *)
(* uploaded by another user than the one its verified token names, and     *)
(* answers 403 when it names such an image; a request without a verified   *)
(* token deletes nothing.                                                  *)
(***************************************************************************)
ForeignDeleteStep ==
    response'.op = "delete-image" =>
        LET req == response'.result.request
        IN  /\ \A f \in files :
                   f.uploadedBy \notin VerifiedCaller(req) => f \in files'
            /\ \A f \in files :
                   (/\ req.method = "DELETE"
                    /\ VerifiedCaller(req) # {}
                    /\ f.uploadedBy \notin VerifiedCaller(req)
                    /\ f.id = req.imageId)
                       => response'.result.status = 403
            /\ VerifiedCaller(req) = {} => files' = files

C23_OnlyOwnerDeletes == [][ForeignDeleteStep]_vars

C23_Witness ==
    /\ response.op = "delete-image"
    /\ response.result.status = 403
    /\ response.result.request.authorization = 
           [bearer |-> TRUE, uid |-> FirebaseUid("b"), verifies |-> TRUE]
    /\ \E f \in files : /\ f.id = response.result.request.imageId
                        /\ f.uploadedBy = FirebaseUid("a")

(***************************************************************************)
(* C24: The balanceAfter the ledger page shows on a row is the running     *)
(* balance of that transaction over all of the client's transactions in    *)
(* ascending order of the sort field (in some order of those that share a  *)
(* value), whatever the page size and the filters are; so it is the same   *)
(* under every page size and filter.                                       *)
(***************************************************************************)
AscendingListings(docs, sortField) ==
    {s \in Listings(Range(docs)) :
        \A i, j \in 1..Len(s) :
            i < j => sortValue(s[i], sortField) <= sortValue(s[j], sortField)}

PositionIn(s, id) == CHOOSE k \in 1..Len(s) : s[k].id = id

C24_ShownBalanceIsOverAllTransactions ==
    (Called /\ "pageSize" \in DOMAIN call) =>
        \E s \in AscendingListings(input, call.sortField) :
            \A k \in 1..Len(output) :
                output[k].balanceAfter = PrefixNet(s, PositionIn(s, output[k].id))

(***************************************************************************)
(* C25: A createTransaction dated on or before an existing transaction of  *)
(* the same client leaves the client's stored balances consistent: when    *)
(* they were a running total of credit - debit by date before the call,    *)
(* they are one after it.                                                  *)
(***************************************************************************)
BackdatedCreateStep ==
    (/\ nextId' = nextId + 1
     /\ response'.op = "createTransaction"
     /\ \E r \in LedgerRows(transactions, response'.result.clientId,
                            response'.result.userId) :
            response'.result.date <= r.date
     /\ StoredAreServerTotals(transactions, response'.result.clientId,
                              response'.result.userId))
        => StoredAreServerTotals(transactions', response'.result.clientId,
                                 response'.result.userId)

C25_BackdatedCreateKeepsBalancesConsistent == [][BackdatedCreateStep]_vars

(***************************************************************************)
(* C26: The balance calculateTransactionBalances gives to a transaction id *)
(* is the same for every order in which the same transactions are handed   *)
(* over, also when two of them share the value of the sort field.          *)
(***************************************************************************)
C26_BalancesIgnoreInputOrder ==
    Called =>
        \A reordered \in Listings(Range(input)) :
            LET other == calculateTransactionBalances(reordered, call.sortField,
                                                      call.sortOrder)
            IN  \A t \in Range(input) :
                    BalanceShown(other, t.id) = BalanceShown(output, t.id)

(***************************************************************************)
(* C27: An updateTransaction or deleteTransaction that runs to completion  *)
(* leaves the stored balances of the transaction's client a running total  *)
(* of credit - debit in a date-ascending order, starting from 0, whatever  *)
(* the stored balances were before the call; this holds for an update that *)
(* changes the date as well.                                               *)
(***************************************************************************)
RepairStep ==
    response'.op \in {"updateTransaction", "deleteTransaction"} =>
        \A t \in ActedOn :
            StoredAreServerTotals(transactions', t.clientId, t.userId)

RowsOfCaller(resp) ==
    {r \in transactions : \E ledger \in resp.recalculated : r.userId = ledger[2]}

MissingIdStep ==
    /\ NotFound(response') =>
           /\ transactions' = transactions
           /\ response'.op = "updateTransaction" => response'.result = "undefined"
           /\ response'.op = "deleteTransaction" => response'.result = FALSE
    /\ (response'.op = "updateTransaction" /\ ~NotFound(response')) =>
           \E r \in RowsOfCaller(response') : r.id = response'.result.id
    /\ (response'.op = "deleteTransaction" /\ ~NotFound(response')) =>
           \E r \in RowsOfCaller(response') :
               \A q \in transactions' : q.id # r.id

C30_MissingIdChangesNothing == [][MissingIdStep]_vars

\* Not-found has been answered over a ledger whose balances a backdated
\* create has left inconsistent: they are still as the create left them.
C30_Witness ==
    /\ NotFound(response)
    /\ Cardinality(LedgerRows(transactions, 1, "u1")) >= 2
    /\ ~StoredAreServerTotals(transactions, 1, "u1")

(***************************************************************************)
(* C28: getTransactions of the server with type 'credit' returns exactly   *)
(* the transactions of the client with a creditAmount above zero, and with *)
(* type 'debit' exactly those with a debitAmount above zero: the rows the  *)
(* Firebase getTransactions keeps for the same transactionType.            *)
(***************************************************************************)
FirebaseTypeSelection(rows, type) ==
    {r \in rows :
        passesFilters(r, [transactionType |-> type,
                          hasStartDate |-> FALSE, startDate |-> 0,
                          hasEndDate |-> FALSE, endDate |-> 0])}

C28_TypeFilterSelectsByAmount ==
    (response.op = "getTransactionsFiltered"
        /\ response.result.filters.type \in {"credit", "debit"}) =>
        Range(response.result.rows)
            = FirebaseTypeSelection(
                  LedgerRows(transactions, response.result.clientId,
                             response.result.userId),
                  response.result.filters.type)

(***************************************************************************)
(* C29: The Firebase getMonthlyTotals counts every transaction of every    *)
(* client of the user that is dated in the month, however many             *)
(* transactions the client has.  (Stated for a browser in UTC, where the   *)
(* two days the function hands to getTransactions are those of the month.) *)
(***************************************************************************)
C29_MonthlyTotalsCountEveryTransaction ==
    (response.op = "firebase.getMonthlyTotals" /\ ~response.result.aheadOfUtc) =>
        \A r \in transactions :
            (r.userId = response.result.userId
                /\ MonthOf(r.date) = response.result.month)
                => r.id \in response.result.counted

====
